---- MODULE Spec2Model ----
(***************************************************************************)
(* PHOS raw-data quality-control task (Modules/PHOS/src/RawQcTask.cxx).    *)
(*                                                                         *)
(* The task owns two arrays of histograms (mHist1D, mHist2D), a vector of  *)
(* per-channel spectra (mSpectra), the acquisition mode (mMode), the chi2  *)
(* switch (mCheckChi2) and the flag mFinalized.  The framework calls       *)
(* startOfActivity, startOfCycle, monitorData, endOfCycle, endOfActivity   *)
(* and reset; every call is one action of the model.  initialize() gives   *)
(* the initial states; SpecInitialize has it as an action as well, for a   *)
(* framework that calls it again on a running task.                        *)
(*                                                                         *)
(* Numbers.  The histograms are TH1F and TH2F: a bin holds a Float_t, and  *)
(* energy, time and the running mean are float.  The model writes a number *)
(* as the rational <<numerator, denominator>> in lowest terms and rounds   *)
(* it with Float to the nearest single-precision value (24-bit             *)
(* significand, ties to even) wherever the program stores a float.  The    *)
(* double arithmetic between two stores is taken as exact: a product or a  *)
(* quotient of two floats rounded to double and then to float is the       *)
(* exact result rounded to float.  Exponent range (overflow, subnormals)   *)
(* is not modelled, and the integers of the model are 32 bits wide: the    *)
(* inputs are floats with short significands.                              *)
(* Histograms are stored sparsely: a function from the global bin number   *)
(* to the bin's content, holding the non-zero bins only (a bin that is not *)
(* in the domain holds 0).                                                 *)
(***************************************************************************)
EXTENDS Integers, Sequences, FiniteSets, Bags, TLC

(***************************************************************************)
(* Rational arithmetic (float/double arithmetic of the program).           *)
(***************************************************************************)
Abs(n) == IF n < 0 THEN -n ELSE n

RECURSIVE Gcd(_, _)
Gcd(a, b) == IF b = 0 THEN a ELSE Gcd(b, a % b)

\* the normal form of n/d, d # 0: positive denominator, lowest terms
Rat(n, d) ==
    LET g == Gcd(Abs(n), Abs(d))
        s == IF d < 0 THEN -1 ELSE 1
    IN  <<(s * n) \div g, (s * d) \div g>>

Zero == <<0, 1>>
One == <<1, 1>>
RInt(n) == <<n, 1>>

RAdd(a, b) ==
    LET g == Gcd(a[2], b[2])
        l == (a[2] \div g) * b[2]
    IN  Rat(a[1] * (l \div a[2]) + b[1] * (l \div b[2]), l)

RNeg(a) == <<-a[1], a[2]>>
RSub(a, b) == RAdd(a, RNeg(b))

RMul(a, b) ==
    LET g1 == Gcd(Abs(a[1]), b[2])
        g2 == Gcd(Abs(b[1]), a[2])
    IN  Rat((a[1] \div g1) * (b[1] \div g2), (a[2] \div g2) * (b[2] \div g1))

\* a / b for b # 0
RDiv(a, b) == RMul(a, Rat(b[2], b[1]))

RPos(a) == a[1] > 0

\* the integer part (int) of a non-negative rational
RFloor(a) == a[1] \div a[2]

\* a < b: by the integer parts where these differ
RLess(a, b) ==
    IF RFloor(a) # RFloor(b) THEN RFloor(a) < RFloor(b) ELSE RSub(a, b)[1] < 0

Pow2(n) == 2 ^ n

\* C++ integer division: the quotient is truncated toward zero
TruncDiv(a, b) == IF a >= 0 THEN a \div b ELSE -((-a) \div b)

(***************************************************************************)
(* Float_t: rounding to the nearest single-precision value.                *)
(***************************************************************************)
Two23 == 8388608
Two24 == 2 * Two23

\* m + rem/q (0 <= rem < q) rounded to the nearest integer, ties to even
RoundEven(m, rem, q) ==
    IF 2 * rem > q \/ (2 * rem = q /\ m % 2 = 1) THEN m + 1 ELSE m

\* (m + rem/q) / 2^s with m < 2^24: more binary digits of the quotient per
\* step (eight where the numbers are small enough, else one), until the
\* significand has 24 bits
RECURSIVE FloatBits(_, _, _, _)
FloatBits(m, rem, q, s) ==
    IF m >= Two23 THEN Rat(RoundEven(m, rem, q), Pow2(s))
    ELSE IF m < Pow2(15) /\ q < Two23
    THEN FloatBits(256 * m + (256 * rem) \div q, (256 * rem) % q, q, s + 8)
    ELSE FloatBits(2 * m + (IF 2 * rem >= q THEN 1 ELSE 0), (2 * rem) % q, q, s + 1)

\* p/q >= 2^24: the significand is the quotient by q * 2^k
RECURSIVE FloatShift(_, _, _)
FloatShift(p, q, k) ==
    LET d == q * Pow2(k)
    IN  IF p \div d < Two24 THEN RInt(RoundEven(p \div d, p % d, d) * Pow2(k))
        ELSE FloatShift(p, q, k + 1)

\* Float_t(r)
Float(r) ==
    IF r[1] = 0 THEN Zero
    ELSE IF Abs(r[1]) < Two24 /\ r[2] \in {Pow2(k) : k \in 0 .. 30} THEN r
    ELSE LET p == Abs(r[1])
             q == r[2]
             v == IF p \div q >= Two24 THEN FloatShift(p, q, 1)
                  ELSE FloatBits(p \div q, p % q, q, 0)
         IN  IF r[1] < 0 THEN RNeg(v) ELSE v

\* bitwise or of two non-negative integers (cont |= ...)
RECURSIVE BitOr(_, _)
BitOr(a, b) ==
    IF a = 0 THEN b
    ELSE IF b = 0 THEN a
    ELSE (IF a % 2 = 1 \/ b % 2 = 1 THEN 1 ELSE 0) + 2 * BitOr(a \div 2, b \div 2)

(***************************************************************************)
(* ROOT histograms, as the task uses them.                                 *)
(***************************************************************************)
EmptyHist == [b \in {} |-> Zero]

GetBinContent(h, bin) == IF bin \in DOMAIN h THEN h[bin] ELSE Zero

\* fArray[bin] = f for a Float_t f; a histogram is the function of the bins
\* that hold something else than 0
SetBin(h, bin, f) ==
    IF f = Zero THEN [b \in DOMAIN h \ {bin} |-> h[b]]
    ELSE [b \in DOMAIN h \cup {bin} |-> IF b = bin THEN f ELSE h[b]]

\* TH1::SetBinContent ignores a negative bin number; the bin is a Float_t
SetBinContent(h, bin, v) == IF bin < 0 THEN h ELSE SetBin(h, bin, Float(v))

\* TH1F/TH2F::AddBinContent(bin, w): fArray[bin] += Float_t(w).  The weight w
\* is a double and is rounded to a Float_t first; the sum of the two floats
\* is rounded again
AddBinContent(h, bin, w) == SetBin(h, bin, Float(RAdd(GetBinContent(h, bin), Float(w))))

\* TAxis::FindBin: 0 is the underflow bin (x < xmin), nbins + 1 the overflow
\* bin (x >= xmax), else 1 + int(u) for u = nbins * (x - xmin) / (xmax - xmin)
AxisBin(nbins, u) ==
    IF u[1] < 0 THEN 0
    ELSE IF RFloor(u) >= nbins THEN nbins + 1
    ELSE 1 + RFloor(u)

\* u is computed as x * k - xmin * k with k = nbins / (xmax - xmin), which
\* keeps the numbers small; x is the Float_t the caller passes
TAxisFindBin(nbins, xmin, xmax, x) ==
    LET k == RDiv(RInt(nbins), RSub(xmax, xmin))
    IN  AxisBin(nbins, RSub(RMul(k, Float(x)), RMul(k, xmin)))

\* the binning of a histogram: [nx, xmin, xmax, ny, ymin, ymax] (ny = 0: 1D)
Axes(nx, xmin, xmax, ny, ymin, ymax) ==
    [nx |-> nx, xmin |-> xmin, xmax |-> xmax, ny |-> ny, ymin |-> ymin, ymax |-> ymax]

\* TH2::FindBin: the global bin number of the point (x, y)
FindBin(ax, x, y) ==
    TAxisFindBin(ax.nx, ax.xmin, ax.xmax, x)
      + (ax.nx + 2) * TAxisFindBin(ax.ny, ax.ymin, ax.ymax, y)

\* TH2::Fill(x, y, w): adds w to the bin of (x, y), under- and overflow included
Fill2(h, ax, x, y, w) == AddBinContent(h, FindBin(ax, x, y), w)

\* the value TH2::Fill returns: the bin number, or -1 for under- and overflow
Fill2Bin(ax, x, y) ==
    LET bx == TAxisFindBin(ax.nx, ax.xmin, ax.xmax, x)
        by == TAxisFindBin(ax.ny, ax.ymin, ax.ymax, y)
    IN  IF bx = 0 \/ bx > ax.nx \/ by = 0 \/ by > ax.ny THEN -1
        ELSE bx + (ax.nx + 2) * by

\* TH1::Fill(x): adds 1 to the bin of x
Fill1(h, ax, x) == AddBinContent(h, TAxisFindBin(ax.nx, ax.xmin, ax.xmax, x), One)

\* TH1::Divide(h2): bin by bin h / h2, and 0 where h2 holds 0
Divide(h, h2) ==
    [b \in {x \in DOMAIN h : x \in DOMAIN h2} |-> Float(RDiv(h[b], h2[b]))]

\* TH1::Multiply(h2): bin by bin h * h2
Multiply(h, h2) ==
    [b \in {x \in DOMAIN h : x \in DOMAIN h2} |-> Float(RMul(h[b], h2[b]))]

(***************************************************************************)
(* Detector geometry and the histograms of the task.                       *)
(***************************************************************************)
nZ == 56
nPhi == 64
NCHANNELS == 14336
FirstChannel == 1793
GainBit == 14
LowGainScale == 16
kOcccupancyTh == 10
NModules == 4

Modules == 0 .. (NModules - 1)

\* o2::phos::Geometry::absToRelNumbering, which checks nothing:
\* <<module number, row (phi), column (z)>>, for a channel <<1..4, 1..64, 1..56>>
absToRelNumbering(absId) ==
    LET phosmodulenumber == TruncDiv(absId - 1, nZ * nPhi)
        a == (absId - 1) - phosmodulenumber * nPhi * nZ
        row == 1 + TruncDiv(a, nZ)
    IN  <<phosmodulenumber + 1, row, a - (row - 1) * nZ + 1>>

\* histogram binnings (InitHistograms, Create...Histograms)
ErrorAxes == Axes(32, RInt(0), RInt(32), 15, RInt(0), RInt(15))
CellAxes == Axes(nPhi, RInt(0), RInt(nPhi), nZ, RInt(0), RInt(nZ))
TimeEAxes == Axes(50, RInt(0), RInt(1000), 50, Rat(-1, 2000000), Rat(1, 2000000))
CellSpAxes == Axes(100, RInt(0), RInt(1000), 0, Zero, Zero)
MeanSummaryAxes == Axes(100, RInt(0), RInt(100), 0, Zero, Zero)
RmsSummaryAxes == Axes(100, RInt(0), RInt(10), 0, Zero, Zero)
BadMapAxes == Axes(4, RInt(1), RInt(5), 0, Zero, Zero)
SpectraAxes == Axes(487, RInt(50), RInt(1024), 0, Zero, Zero)

\* the point (relid[1] - 0.5, relid[2] - 0.5) the cell grids are filled at
CellBin(relid) == FindBin(CellAxes, Rat(2 * relid[2] - 1, 2), Rat(2 * relid[3] - 1, 2))

\* the slots of mHist2D and mHist1D: <<first slot of the family, module>>
Chi2Families == {"kChi2", "kChi2Norm"}
PedValueFamilies == {"kHGmean", "kHGrms", "kLGmean", "kLGrms"}
PedOccupFamilies == {"kHGoccup", "kLGoccup"}
PhysFamilies2D == {"kTimeE", "kCellOccup", "kCellE"}
PedSummaryFamilies == {"kHGmeanSummary", "kHGrmsSummary", "kLGmeanSummary", "kLGrmsSummary"}

Slots2D ==
    {<<"kErrorNumber", 0>>, <<"kErrorType", 0>>}
      \cup ((Chi2Families \cup PedValueFamilies \cup PedOccupFamilies
               \cup PhysFamilies2D \cup {"kLEDNpeaks"}) \X Modules)

Slots1D ==
    {<<"kBadMapSummary", 0>>} \cup ((PedSummaryFamilies \cup {"kCellSp"}) \X Modules)

\* the histograms InitHistograms creates (the other slots stay null)
Created2D(mode, chi2) ==
    {<<"kErrorNumber", 0>>, <<"kErrorType", 0>>}
      \cup (IF chi2 THEN Chi2Families \X Modules ELSE {})
      \cup (IF mode = 0 THEN PhysFamilies2D \X Modules ELSE {})
      \cup (IF mode = 1 THEN (PedValueFamilies \cup PedOccupFamilies) \X Modules ELSE {})
      \cup (IF mode = 2 THEN (PhysFamilies2D \cup {"kLEDNpeaks"}) \X Modules ELSE {})

Created1D(mode) ==
    {<<"kBadMapSummary", 0>>}
      \cup (IF mode = 0 \/ mode = 2 THEN {"kCellSp"} \X Modules ELSE {})
      \cup (IF mode = 1 THEN PedSummaryFamilies \X Modules ELSE {})

\* TH1::fMinimum / fMaximum of a histogram that was given none
Unset == RInt(-1111)

(***************************************************************************)
(* The task's state as a record, and the handlers as functions on it:      *)
(*   fin      mFinalized                                                   *)
(*   h1, h2   mHist1D, mHist2D (contents; a null slot holds EmptyHist)     *)
(*   rng      display minimum and maximum set on the occupancy grids       *)
(*   sp       mSpectra, by absId - 1793: the spectra that hold something   *)
(*   nsp      mSpectra.size()                                              *)
(*   initBad  mInitBadMap                                                  *)
(*   badMap   mBadMap: [ok |-> FALSE] for a null pointer, else the set bad  *)
(* mMode and mCheckChi2 are fixed by initialize() and passed along.        *)
(***************************************************************************)
H2(S, fam, mod) == S.h2[<<fam, mod>>]

\* the cells that one batch delivers: cells[i] for every trigger record tr and
\* every i in tr.first .. tr.first + tr.n - 1, in this order; cells is a span
\* indexed from 0
RECURSIVE Range(_, _, _)
Range(cells, first, n) ==
    IF n <= 0 THEN <<>> ELSE <<cells[first + 1]>> \o Range(cells, first + 1, n - 1)

RECURSIVE InTriggers(_, _)
InTriggers(cells, cellsTR) ==
    IF cellsTR = <<>> THEN <<>>
    ELSE Range(cells, Head(cellsTR).first, Head(cellsTR).n)
           \o InTriggers(cells, Tail(cellsTR))

(***************************************************************************)
(* Undefined behaviour.  The handlers of monitorData check neither the     *)
(* module number absToRelNumbering returns nor the channel index of a      *)
(* spectrum nor the length of the fit-quality list.  mHist2D[k...M1 + mod] *)
(* for mod outside 0..3 is a histogram of another family or a null pointer *)
(* or lies outside the array, by the order of the enumerators in           *)
(* RawQcTask.h; mSpectra[i] for i outside the vector and *it at end() are  *)
(* reads outside an object.  What the process does then is not defined by  *)
(* the source: the fill may land in another histogram of the task, the     *)
(* process may crash.  From such an access on the content of the           *)
(* histograms and spectra is not determined: mHist1D, mHist2D and the      *)
(* display ranges hold the value UndefinedH and mSpectra the value         *)
(* UndefinedSp, which stand for every content, and they keep it whatever   *)
(* is called afterwards (a Reset() included: the model does not say which  *)
(* objects the access has reached).  mFinalized, mInitBadMap and mBadMap   *)
(* are not written through the arrays; they go on as the code sets them.   *)
(***************************************************************************)
UndefinedH == [id \in {<<"undefined", 0>>} |-> EmptyHist]
UndefinedSp == [c \in {-1} |-> EmptyHist]
Undefined(S) == S.h2 = UndefinedH \/ S.sp = UndefinedSp

\* the state a handler works on: where the content is not determined the
\* handler is followed on empty histograms, for its flags only
Emptied(S) ==
    IF Undefined(S)
    THEN [S EXCEPT !.h1 = [id \in Slots1D |-> EmptyHist],
                   !.h2 = [id \in Slots2D |-> EmptyHist],
                   !.rng = [id \in PedOccupFamilies \X Modules |-> <<Unset, Unset>>],
                   !.sp = [c \in {} |-> EmptyHist]]
    ELSE S

\* the state R a handler leaves from the state S: the content stays
\* undetermined, or becomes so, in all histograms and spectra
Propagate(S, R) ==
    IF Undefined(S) \/ Undefined(R)
    THEN [R EXCEPT !.h1 = UndefinedH, !.h2 = UndefinedH, !.rng = UndefinedH,
                   !.sp = UndefinedSp]
    ELSE R

---------------------------------------------------------------------------
\* reset(): mFinalized = false, every histogram of both arrays Reset()
reset(S) ==
    Propagate(S, [S EXCEPT !.fin = FALSE,
                           !.h1 = [id \in Slots1D |-> EmptyHist],
                           !.h2 = [id \in Slots2D |-> EmptyHist]])

startOfActivity(S) == reset(S)

---------------------------------------------------------------------------
\* startOfCycle, first block: the chi2 grids back to sums
Chi2Unfinalize(mode, chi2, S) ==
    IF chi2 /\ S.fin
    THEN [S EXCEPT
            !.h2 = [id \in Slots2D |->
                      IF id[1] = "kChi2"
                      THEN Multiply(S.h2[id], H2(S, "kChi2Norm", id[2]))
                      ELSE S.h2[id]],
            !.fin = IF mode # 1 THEN FALSE ELSE S.fin]
    ELSE S

\* a faulty multiply C3 must tell from the real one: the mean grids only
PedestalMultiplyMeansOnly(h2) ==
    [id \in Slots2D |->
       IF id[1] = "kHGmean" THEN Multiply(h2[id], h2[<<"kHGoccup", id[2]>>])
       ELSE IF id[1] = "kLGmean" THEN Multiply(h2[id], h2[<<"kLGoccup", id[2]>>])
       ELSE h2[id]]

\* value * occupancy for the four pedestal value grids of every module
PedestalMultiply(h2) ==
    [id \in Slots2D |->
       IF id[1] \in {"kHGmean", "kHGrms"} THEN Multiply(h2[id], h2[<<"kHGoccup", id[2]>>])
       ELSE IF id[1] \in {"kLGmean", "kLGrms"} THEN Multiply(h2[id], h2[<<"kLGoccup", id[2]>>])
       ELSE h2[id]]

\* startOfCycle, second block: the pedestal grids back to sums
PedestalUnfinalize(mode, S) ==
    IF mode = 1 /\ S.fin
    THEN [S EXCEPT !.h2 = PedestalMultiply(S.h2), !.fin = FALSE]
    ELSE S

startOfCycle(mode, chi2, S) ==
    Propagate(S, PedestalUnfinalize(mode, Chi2Unfinalize(mode, chi2, Emptied(S))))

---------------------------------------------------------------------------
\* endOfCycle, first block: chi2 sum / number of fits
Chi2Finalize(chi2, S) ==
    IF chi2 /\ ~S.fin
    THEN [S EXCEPT
            !.h2 = [id \in Slots2D |->
                      IF id[1] = "kChi2"
                      THEN Divide(S.h2[id], H2(S, "kChi2Norm", id[2]))
                      ELSE S.h2[id]]]
    ELSE S

\* the bins GetBinContent(iz, ix) reads for iz in 1..64, ix in 1..56
InGrid(bin) == (bin % (nPhi + 2)) \in 1 .. nPhi /\ (bin \div (nPhi + 2)) \in 1 .. nZ

\* Reset() of a summary, then Fill(a) for every cell of the grid with a > 0
RECURSIVE FillPositive(_, _, _, _)
FillPositive(sum, ax, grid, bins) ==
    IF bins = {} THEN sum
    ELSE LET b == CHOOSE x \in bins : TRUE
         IN  FillPositive(IF RPos(grid[b]) THEN Fill1(sum, ax, grid[b]) ELSE sum,
                          ax, grid, bins \ {b})

Summary(ax, grid) ==
    FillPositive(EmptyHist, ax, grid, {b \in DOMAIN grid : InGrid(b)})

\* occMin, occMax over the cells with occupancy > 0, from 1.e+9 and 0.
RECURSIVE OccMin(_, _, _)
OccMin(occ, bins, m) ==
    IF bins = {} THEN m
    ELSE LET b == CHOOSE x \in bins : TRUE
         IN  OccMin(occ, bins \ {b},
                    IF RPos(occ[b]) /\ RLess(occ[b], m) THEN occ[b] ELSE m)

RECURSIVE OccMax(_, _, _)
OccMax(occ, bins, m) ==
    IF bins = {} THEN m
    ELSE LET b == CHOOSE x \in bins : TRUE
         IN  OccMax(occ, bins \ {b},
                    IF RPos(occ[b]) /\ RLess(m, occ[b]) THEN occ[b] ELSE m)

OccRange(occ) ==
    LET bins == {b \in DOMAIN occ : InGrid(b)}
    IN  <<OccMin(occ, bins, RInt(1000000000)), OccMax(occ, bins, Zero)>>

\* a faulty divide C4 must tell from the real one: the mean grids only
PedestalDivideMeansOnly(h2) ==
    [id \in Slots2D |->
       IF id[1] = "kHGmean" THEN Divide(h2[id], h2[<<"kHGoccup", id[2]>>])
       ELSE IF id[1] = "kLGmean" THEN Divide(h2[id], h2[<<"kLGoccup", id[2]>>])
       ELSE h2[id]]

\* value / occupancy for the four pedestal value grids of every module
PedestalDivide(h2) ==
    [id \in Slots2D |->
       IF id[1] \in {"kHGmean", "kHGrms"} THEN Divide(h2[id], h2[<<"kHGoccup", id[2]>>])
       ELSE IF id[1] \in {"kLGmean", "kLGrms"} THEN Divide(h2[id], h2[<<"kLGoccup", id[2]>>])
       ELSE h2[id]]

\* faulty summaries C21 must tell from the real ones: filled without the Reset()
PedestalSummariesKept(h1, h2) ==
    [id \in Slots1D |->
       LET cells(grid) == {b \in DOMAIN grid : InGrid(b)}
       IN  IF id[1] = "kHGmeanSummary"
           THEN FillPositive(h1[id], MeanSummaryAxes, h2[<<"kHGmean", id[2]>>],
                             cells(h2[<<"kHGmean", id[2]>>]))
           ELSE IF id[1] = "kHGrmsSummary"
           THEN FillPositive(h1[id], RmsSummaryAxes, h2[<<"kHGrms", id[2]>>],
                             cells(h2[<<"kHGrms", id[2]>>]))
           ELSE IF id[1] = "kLGmeanSummary"
           THEN FillPositive(h1[id], MeanSummaryAxes, h2[<<"kLGmean", id[2]>>],
                             cells(h2[<<"kLGmean", id[2]>>]))
           ELSE IF id[1] = "kLGrmsSummary"
           THEN FillPositive(h1[id], RmsSummaryAxes, h2[<<"kLGrms", id[2]>>],
                             cells(h2[<<"kLGrms", id[2]>>]))
           ELSE h1[id]]

\* the summaries, from the divided grids
PedestalSummaries(h1, h2) ==
    [id \in Slots1D |->
       IF id[1] = "kHGmeanSummary" THEN Summary(MeanSummaryAxes, h2[<<"kHGmean", id[2]>>])
       ELSE IF id[1] = "kHGrmsSummary" THEN Summary(RmsSummaryAxes, h2[<<"kHGrms", id[2]>>])
       ELSE IF id[1] = "kLGmeanSummary" THEN Summary(MeanSummaryAxes, h2[<<"kLGmean", id[2]>>])
       ELSE IF id[1] = "kLGrmsSummary" THEN Summary(RmsSummaryAxes, h2[<<"kLGrms", id[2]>>])
       ELSE h1[id]]

\* the state with the divided grids d: summaries and display ranges from d
PedestalFinalized(S, d) ==
    [S EXCEPT
       !.h2 = d,
       !.h1 = PedestalSummaries(S.h1, d),
       !.rng = [id \in DOMAIN S.rng |-> OccRange(d[id])],
       !.fin = TRUE]

\* endOfCycle, second block (Pedestals): nothing when already finalized
\* a faulty finalize C24 must tell from the real one: the flag is set in
\* every mode, the grids are divided in Pedestal mode only
PedestalFinalizeAnyMode(mode, S) ==
    IF ~S.fin
    THEN IF mode = 1 THEN PedestalFinalized(S, PedestalDivide(S.h2))
         ELSE [S EXCEPT !.fin = TRUE]
    ELSE S

PedestalFinalize(mode, S) ==
    IF mode = 1 /\ ~S.fin THEN PedestalFinalized(S, PedestalDivide(S.h2)) ELSE S

\* TSpectrum::Search(spectrum, 2, "goff", 0.1): the number of peaks found.
\* The routine is ROOT's; the model counts the bins that reach 0.1 of the
\* highest bin and exceed both neighbours, at most 20 (TSpectrum(20)).
MaxPeaks == 20
\* the bins of the axis of a channel spectrum: under- and overflow are not searched
InSpectrum(sp) == {b \in DOMAIN sp : b >= 1 /\ b <= SpectraAxes.nx}

HistMax(sp) ==
    IF InSpectrum(sp) = {} THEN Zero
    ELSE sp[CHOOSE b \in InSpectrum(sp) : \A c \in InSpectrum(sp) : ~RLess(sp[b], sp[c])]

Peaks(sp, top) ==
    {b \in InSpectrum(sp) :
       /\ ~RLess(RMul(RInt(10), sp[b]), top)
       /\ RLess(GetBinContent(sp, b - 1), sp[b])
       /\ RLess(GetBinContent(sp, b + 1), sp[b])}

AtMost(n, max) == IF n > max THEN max ELSE n

Search(sp) == AtMost(Cardinality(Peaks(sp, HistMax(sp))), MaxPeaks)

\* the cell of the peak grid that channel index ch (absId - 1793) is written to
ChannelModule(ch) == absToRelNumbering(ch + FirstChannel)[1] - 1
ChannelBin(ch) == CellBin(absToRelNumbering(ch + FirstChannel))

\* whether a bin of a peak grid of module mod is the cell of a channel 1793..NCHANNELS
IsChannelBin(mod, bin) ==
    /\ InGrid(bin)
    /\ mod * nZ * nPhi + ((bin % (nPhi + 2)) - 1) * nZ + (bin \div (nPhi + 2)) >= FirstChannel

\* a faulty peak count C18 must tell from the real one: the count is added to
\* the cell, not set
PeakCountAdds(mode, S) ==
    IF mode = 2
    THEN [S EXCEPT
            !.h2 = [id \in Slots2D |->
                      IF id[1] = "kLEDNpeaks"
                      THEN LET chans == {c \in DOMAIN S.sp :
                                           /\ ChannelModule(c) = id[2]
                                           /\ Search(S.sp[c]) # 0}
                           IN  [b \in DOMAIN S.h2[id] \cup {ChannelBin(c) : c \in chans} |->
                                  IF b \in {ChannelBin(c) : c \in chans}
                                  THEN RAdd(GetBinContent(S.h2[id], b),
                                            RInt(Search(S.sp[CHOOSE c \in chans :
                                                               ChannelBin(c) = b])))
                                  ELSE S.h2[id][b]]
                      ELSE S.h2[id]]]
    ELSE S

\* endOfCycle, third block (LED): SetBinContent(cell of absId, npeaks) for every
\* absId in 1793..NCHANNELS; a channel with an empty spectrum has no peak
PeakChannels(sp, mod) ==
    {c \in DOMAIN sp : ChannelModule(c) = mod /\ Search(sp[c]) # 0}

PeakGrid(h, sp, mod, chans) ==
    LET keep == {b \in DOMAIN h : ~IsChannelBin(mod, b)}
    IN  [b \in keep \cup {ChannelBin(c) : c \in chans} |->
           IF b \in keep THEN h[b]
           ELSE RInt(Search(sp[CHOOSE c \in chans : ChannelBin(c) = b]))]

PeakCount(mode, S) ==
    IF mode = 2
    THEN [S EXCEPT
            !.h2 = [id \in Slots2D |->
                      IF id[1] = "kLEDNpeaks"
                      THEN PeakGrid(S.h2[id], S.sp, id[2], PeakChannels(S.sp, id[2]))
                      ELSE S.h2[id]]]
    ELSE S

endOfCycle(mode, chi2, S) ==
    Propagate(S, PeakCount(mode, PedestalFinalize(mode, Chi2Finalize(chi2, Emptied(S)))))

endOfActivity(mode, chi2, S) == endOfCycle(mode, chi2, S)

---------------------------------------------------------------------------
(***************************************************************************)
(* monitorData.  Its input:                                                *)
(*   hwerrors  sequence of [fec, ddl, err]                                 *)
(*   ccdb      what the bad-map query answers: [ok, bad], ok = FALSE: null *)
(*   chi2list  flat sequence address, chi2, address, chi2, ...             *)
(*   cells     sequence of [absId, energy, time, hg]                       *)
(*   cellsTR   sequence of [first, n]                                      *)
(***************************************************************************)

\* a faulty tally C8 must tell from the real one: the last code replaces the
\* bitmask
FillErrorLastCode(h2, e) ==
    LET x == RInt(e.fec)
        y == RInt(e.ddl)
    IN  [h2 EXCEPT
           ![<<"kErrorNumber", 0>>] = Fill2(@, ErrorAxes, x, y, One),
           ![<<"kErrorType", 0>>] =
               SetBinContent(@, Fill2Bin(ErrorAxes, x, y), RInt(Pow2(e.err)))]

\* one hardware error: count at (FEC, DDL), and its bit or-ed into the type grid
\* cont |= (1 << err) on the bin that Fill returned; GetBinContent clamps a
\* negative bin number to bin 0
FillErrorType(type, ibin, err) ==
    SetBinContent(type, ibin,
                  RInt(BitOr(RFloor(GetBinContent(type, IF ibin < 0 THEN 0 ELSE ibin)),
                             Pow2(err))))

FillError(h2, e) ==
    [h2 EXCEPT
       ![<<"kErrorNumber", 0>>] = Fill2(@, ErrorAxes, RInt(e.fec), RInt(e.ddl), One),
       ![<<"kErrorType", 0>>] =
           FillErrorType(@, Fill2Bin(ErrorAxes, RInt(e.fec), RInt(e.ddl)), e.err)]

RECURSIVE FillErrors(_, _)
FillErrors(h2, hwerrors) ==
    IF hwerrors = <<>> THEN h2
    ELSE FillErrors(FillError(h2, Head(hwerrors)), Tail(hwerrors))

\* the number of bad channels per module, counted from absId 1973
BadMapFirst == 1973
BadCount(bad, mod) ==
    Cardinality({a \in bad : /\ a >= BadMapFirst
                             /\ a <= NCHANNELS
                             /\ (a - 1) \div (nZ * nPhi) = mod})

\* a faulty recovery C17 must tell from the real one: without a map, every
\* histogram is reset, not the summary alone
ReadBadMapResetsAll(S, ccdb) ==
    IF S.initBad
    THEN IF ~ccdb.ok
         THEN reset([S EXCEPT !.initBad = FALSE, !.badMap = ccdb])
         ELSE [S EXCEPT
                 !.initBad = FALSE,
                 !.badMap = ccdb,
                 !.h1 = [@ EXCEPT ![<<"kBadMapSummary", 0>>] =
                           [b \in {m + 1 : m \in {k \in Modules : BadCount(ccdb.bad, k) # 0}} |->
                              RInt(BadCount(ccdb.bad, b - 1))]]]
    ELSE S

\* the bad map is read on the first call only
ReadBadMap(S, ccdb) ==
    IF S.initBad
    THEN [S EXCEPT
            !.initBad = FALSE,
            !.badMap = ccdb,
            !.h1 = [@ EXCEPT ![<<"kBadMapSummary", 0>>] =
                      IF ~ccdb.ok THEN EmptyHist
                      ELSE [b \in {m + 1 : m \in {k \in Modules : BadCount(ccdb.bad, k) # 0}} |->
                              RInt(BadCount(ccdb.bad, b - 1))]]]
    ELSE S

\* a faulty decode C14 must tell from the real one: the gain bit stays in the
\* address
KeepGainBit(address) == address

\* address &= ~(1 << 14)
ClearGainBit(address) ==
    IF (address \div Pow2(GainBit)) % 2 = 1 THEN address - Pow2(GainBit) ELSE address

\* one (address, chi2) pair: float chi = 0.2 * chi2 into the chi2 grid, 1 into
\* its norm; the module number is not checked
FillChi2Bin(h2, mod, bin, chi) ==
    IF h2 = UndefinedH \/ mod \notin Modules THEN UndefinedH
    ELSE [h2 EXCEPT
            ![<<"kChi2", mod>>] = AddBinContent(@, bin, chi),
            ![<<"kChi2Norm", mod>>] = AddBinContent(@, bin, One)]

FillChi2At(h2, relid, chi) == FillChi2Bin(h2, relid[1] - 1, CellBin(relid), chi)

FillChi2(h2, address, val) ==
    FillChi2At(h2, absToRelNumbering(ClearGainBit(address)), Float(Rat(val, 5)))

\* while (it != end()) { address = *it; it++; chi = 0.2 * (*it); it++; ... }:
\* a list of odd length is read at end() and stepped past it
RECURSIVE FillChi2List(_, _)
FillChi2List(h2, chi2list) ==
    IF chi2list = <<>> THEN h2
    ELSE IF Len(chi2list) = 1 THEN UndefinedH
    ELSE FillChi2List(FillChi2(h2, chi2list[1], chi2list[2]), Tail(Tail(chi2list)))

\* a faulty energy C7 must tell from the real one: no gain rescale
UnscaledEnergy(c) == Float(c.energy)

\* float e = c.getEnergy(); e *= 16 for a low-gain cell
ScaledEnergy(c) ==
    IF c.hg THEN Float(c.energy) ELSE Float(RMul(RInt(LowGainScale), Float(c.energy)))

\* a faulty cut C6 must tell from the real one: every positive energy passes
AbovePedestal(e) == RPos(e)

\* e > kOcccupancyTh
AboveThreshold(e) == RLess(RInt(kOcccupancyTh), e)

\* a faulty mean C5 must tell from the real one: the old mean is not weighted
RunningMeanUnweighted(e, m, n) ==
    IF RPos(n) THEN Float(RDiv(RAdd(e, m), RAdd(n, One))) ELSE e

\* float emean = (e + mean * n) / (n + 1) for a cell with occupancy n > 0 and
\* mean m, after energy e
RunningMean(e, m, n) ==
    IF RPos(n) THEN Float(RDiv(RAdd(e, RMul(m, n)), Float(RAdd(n, One)))) ELSE e

\* the body of the loop of FillPhysicsHistograms for one cell
\* the fills of an accepted cell: module index mod, bin ibin, energy e
FillPhysicsBin(S, mod, ibin, e, time) ==
    IF mod \notin Modules THEN [S EXCEPT !.h2 = UndefinedH]
    ELSE [S EXCEPT
            !.h2 = [@ EXCEPT
                      ![<<"kCellE", mod>>] =
                          SetBinContent(@, ibin,
                                        RunningMean(e, GetBinContent(@, ibin),
                                                    GetBinContent(H2(S, "kCellOccup", mod),
                                                                  ibin))),
                      ![<<"kCellOccup", mod>>] = AddBinContent(@, ibin, One),
                      ![<<"kTimeE", mod>>] = Fill2(@, TimeEAxes, e, time, One)],
            !.h1 = [@ EXCEPT ![<<"kCellSp", mod>>] = Fill1(@, CellSpAxes, e)]]

FillPhysicsAt(S, relid, e, time) ==
    IF AboveThreshold(e) THEN FillPhysicsBin(S, relid[1] - 1, CellBin(relid), e, time)
    ELSE S

FillPhysicsCell(S, c) ==
    IF Undefined(S) THEN S
    ELSE FillPhysicsAt(S, absToRelNumbering(c.absId), ScaledEnergy(c), Float(c.time))

RECURSIVE FillPhysicsCells(_, _)
FillPhysicsCells(S, cs) ==
    IF cs = <<>> THEN S ELSE FillPhysicsCells(FillPhysicsCell(S, Head(cs)), Tail(cs))

FillPhysicsHistograms(S, cells, cellsTR) == FillPhysicsCells(S, InTriggers(cells, cellsTR))

\* a faulty channel spectrum C12 must tell from the real one: the cut of the
\* Physics rule applied
FillSpectrumAboveThreshold(sp, n, c) ==
    IF c.hg /\ AboveThreshold(c.energy)
    THEN LET ch == c.absId - FirstChannel
             old == IF ch \in DOMAIN sp THEN sp[ch] ELSE EmptyHist
         IN  [k \in DOMAIN sp \cup {ch} |->
                IF k = ch THEN Fill1(old, SpectraAxes, Float(c.energy)) ELSE sp[k]]
    ELSE sp

\* the body of the second loop of FillLEDHistograms for one cell:
\* mSpectra[c.getAbsId() - 1793].Fill(c.getEnergy()), the index unchecked; the
\* vector holds n spectra
FillSpectrum(sp, n, c) ==
    IF sp = UndefinedSp THEN sp
    ELSE IF c.hg
    THEN LET ch == c.absId - FirstChannel
             old == IF ch \in DOMAIN sp THEN sp[ch] ELSE EmptyHist
         IN  IF ch \notin 0 .. (n - 1) THEN UndefinedSp
             ELSE [k \in DOMAIN sp \cup {ch} |->
                     IF k = ch THEN Fill1(old, SpectraAxes, Float(c.energy)) ELSE sp[k]]
    ELSE sp

RECURSIVE FillSpectra(_, _, _)
FillSpectra(sp, n, cs) ==
    IF cs = <<>> THEN sp ELSE FillSpectra(FillSpectrum(sp, n, Head(cs)), n, Tail(cs))

\* the second loop of FillLEDHistograms, on the state P the first has left
FillLEDSpectra(P, cells, cellsTR) ==
    IF Undefined(P) THEN P
    ELSE [P EXCEPT !.sp = FillSpectra(@, P.nsp, InTriggers(cells, cellsTR))]

FillLEDHistograms(S, cells, cellsTR) ==
    FillLEDSpectra(FillPhysicsHistograms(S, cells, cellsTR), cells, cellsTR)

\* a faulty guard C1 must tell from the real one: none at all
PedestalGuardAbsent(S) == S

\* the guard at the head of FillPedestalHistograms
PedestalGuard(S) ==
    IF S.fin THEN [S EXCEPT !.h2 = PedestalMultiply(S.h2), !.fin = FALSE] ELSE S

\* 1.e+7 * c.getTime(): a double, the product of a double and a float
RmsProxy(time) == RMul(RInt(10000000), Float(time))

\* a faulty pedestal fill C20 must tell from the real one: the gain flag is
\* not read
FillPedestalCellHighGain(h2, c) ==
    LET relid == absToRelNumbering(c.absId)
        mod == relid[1] - 1
        bin == CellBin(relid)
    IN  [h2 EXCEPT
           ![<<"kHGmean", mod>>] = AddBinContent(@, bin, Float(c.energy)),
           ![<<"kHGrms", mod>>] = AddBinContent(@, bin, RmsProxy(c.time)),
           ![<<"kHGoccup", mod>>] = AddBinContent(@, bin, One)]

\* a faulty pedestal fill C23 must tell from the real one: the energy is set,
\* not added, so the last record of a cell decides its mean sum
FillPedestalCellSets(h2, c) ==
    LET relid == absToRelNumbering(c.absId)
        mod == relid[1] - 1
        bin == CellBin(relid)
    IN  IF c.hg
        THEN [h2 EXCEPT
                ![<<"kHGmean", mod>>] = SetBinContent(@, bin, Float(c.energy)),
                ![<<"kHGrms", mod>>] = AddBinContent(@, bin, RmsProxy(c.time)),
                ![<<"kHGoccup", mod>>] = AddBinContent(@, bin, One)]
        ELSE [h2 EXCEPT
                ![<<"kLGmean", mod>>] = SetBinContent(@, bin, Float(c.energy)),
                ![<<"kLGrms", mod>>] = AddBinContent(@, bin, RmsProxy(c.time)),
                ![<<"kLGoccup", mod>>] = AddBinContent(@, bin, One)]

\* the body of the loop of FillPedestalHistograms for one cell; the module
\* number is not checked
FillPedestalBin(h2, mod, bin, c) ==
    IF h2 = UndefinedH \/ mod \notin Modules THEN UndefinedH
    ELSE IF c.hg
    THEN [h2 EXCEPT
            ![<<"kHGmean", mod>>] = AddBinContent(@, bin, Float(c.energy)),
            ![<<"kHGrms", mod>>] = AddBinContent(@, bin, RmsProxy(c.time)),
            ![<<"kHGoccup", mod>>] = AddBinContent(@, bin, One)]
    ELSE [h2 EXCEPT
            ![<<"kLGmean", mod>>] = AddBinContent(@, bin, Float(c.energy)),
            ![<<"kLGrms", mod>>] = AddBinContent(@, bin, RmsProxy(c.time)),
            ![<<"kLGoccup", mod>>] = AddBinContent(@, bin, One)]

FillPedestalAt(h2, relid, c) == FillPedestalBin(h2, relid[1] - 1, CellBin(relid), c)

FillPedestalCell(h2, c) == FillPedestalAt(h2, absToRelNumbering(c.absId), c)

RECURSIVE FillPedestalCells(_, _)
FillPedestalCells(h2, cs) ==
    IF cs = <<>> THEN h2 ELSE FillPedestalCells(FillPedestalCell(h2, Head(cs)), Tail(cs))

FillPedestalHistograms(S, cells, cellsTR) ==
    LET G == PedestalGuard(S)
    IN  [G EXCEPT !.h2 = FillPedestalCells(@, InTriggers(cells, cellsTR))]

\* a faulty chi2 block C10 must tell from the real one: the flag is not read
MonitorChi2Unconditional(chi2, S, chi2list) ==
    [S EXCEPT !.h2 = FillChi2List(@, chi2list)]

\* the chi2 block of monitorData
MonitorChi2(chi2, S, chi2list) ==
    IF chi2 THEN [S EXCEPT !.h2 = FillChi2List(@, chi2list)] ELSE S

\* the dispatch on mMode at the end of monitorData
MonitorCells(mode, S, cells, cellsTR) ==
    Propagate(S, IF mode = 0 THEN FillPhysicsHistograms(Emptied(S), cells, cellsTR)
                 ELSE IF mode = 1 THEN FillPedestalHistograms(Emptied(S), cells, cellsTR)
                 ELSE IF mode = 2 THEN FillLEDHistograms(Emptied(S), cells, cellsTR)
                 ELSE S)

monitorData(mode, chi2, S, in) ==
    LET E == [Emptied(S) EXCEPT !.h2 = FillErrors(@, in.hwerrors)]
        B == ReadBadMap(E, in.ccdb)
        C == MonitorChi2(chi2, B, in.chi2list)
    IN  Propagate(S, MonitorCells(mode, C, in.cells, in.cellsTR))

---------------------------------------------------------------------------
(***************************************************************************)
(* The state machine.                                                      *)
(***************************************************************************)
VARIABLES
    mMode,        \* 0 Physics, 1 Pedestals, 2 LED
    mCheckChi2,
    mFinalized,
    mHist1D,
    mHist2D,
    mRange,       \* SetMinimum / SetMaximum of the pedestal occupancy grids
    mSpectra,
    mSpectraSize,
    mInitBadMap,
    mBadMap,
    \* history, for stating the properties; no handler reads it
    delivered,    \* bag of the cells processed since the last reset
    errors,       \* bag of the hardware errors processed since the last reset
    fits,         \* bag of the <<address, chi2>> pairs processed since the last reset
    cycleFits,    \* bag of the <<address, chi2>> pairs processed since the last startOfCycle
    divisions,    \* how often endOfCycle divided the chi2 grids since the last reset
    lastOp,       \* the last call
    lastFin,      \* mFinalized before the last call
    lastN,        \* the number of cells the last call processed
    proto,        \* where the calls so far stand in the framework's protocol
    budget        \* how many more records the run may process before a reset

vars == <<mMode, mCheckChi2, mFinalized, mHist1D, mHist2D, mRange, mSpectra,
          mSpectraSize, mInitBadMap, mBadMap, delivered, errors, fits, cycleFits, divisions, lastOp, lastFin,
          lastN, proto, budget>>

Task ==
    [fin |-> mFinalized, h1 |-> mHist1D, h2 |-> mHist2D, rng |-> mRange,
     sp |-> mSpectra, nsp |-> mSpectraSize, initBad |-> mInitBadMap,
     badMap |-> mBadMap]

\* bounds of the model
MaxBatch == 2
MaxItems == 3
MaxLEDInits == 2
MaxDivisions == 3

\* inputs
\* times: T0, T1 and T2 give 1.e+7 * time a float, T3 gives it a 25-bit
\* significand, which the Float_t of the weight rounds
T0 == Rat(1, 1073741824)
T1 == Rat(1, 33554432)
T2 == Rat(-1, 16777216)
T3 == Rat(217, 1073741824)
Cell(a, e, t, hg) == [absId |-> a, energy |-> e, time |-> t, hg |-> hg]
Err(f, d, e) == [fec |-> f, ddl |-> d, err |-> e]
NoMap == [ok |-> FALSE, bad |-> {}]
SomeMap == [ok |-> TRUE, bad |-> {1800, 2000, 14336}]

SeqsUpTo(pool, n) == UNION {[1 .. k -> pool] : k \in 0 .. n}

\* the trigger records tried for a batch of len cells: one event; two events;
\* one event that leaves the last cell out
TriggerChoices(len) ==
    {<<[first |-> 0, n |-> len]>>}
      \cup (IF len >= 2
            THEN {<<[first |-> 0, n |-> 1], [first |-> 1, n |-> len - 1]>>,
                  <<[first |-> 0, n |-> len - 1]>>}
            ELSE {})

RECURSIVE Flatten(_)
Flatten(pairs) ==
    IF pairs = <<>> THEN <<>> ELSE <<Head(pairs)[1], Head(pairs)[2]>> \o Flatten(Tail(pairs))

\* the batches of at most MaxBatch records drawn from the pools
Batches(errPool, fitPool, cellPool, ccdbPool) ==
    UNION {{[hwerrors |-> b[1], ccdb |-> cc, chi2list |-> Flatten(b[2]),
             cells |-> b[3], cellsTR |-> tr] :
              cc \in ccdbPool, tr \in TriggerChoices(Len(b[3]))} :
           b \in {x \in SeqsUpTo(errPool, MaxBatch) \X SeqsUpTo(fitPool, MaxBatch)
                          \X SeqsUpTo(cellPool, MaxBatch) :
                    Len(x[1]) + Len(x[2]) + Len(x[3]) <= MaxBatch}}

RECURSIVE BagOfSeq(_)
BagOfSeq(sq) == IF sq = <<>> THEN EmptyBag ELSE SetToBag({Head(sq)}) (+) BagOfSeq(Tail(sq))

\* the number of entries of all channel spectra
RECURSIVE HistSum(_, _)
HistSum(h, bins) ==
    IF bins = {} THEN 0
    ELSE LET b == CHOOSE x \in bins : TRUE
         IN  RFloor(h[b]) + HistSum(h, bins \ {b})

RECURSIVE Entries(_, _)
Entries(sp, chans) ==
    IF chans = {} THEN 0
    ELSE LET c == CHOOSE x \in chans : TRUE
         IN  HistSum(sp[c], DOMAIN sp[c]) + Entries(sp, chans \ {c})

\* the task as constructed: no histogram, and the members' default values
\* (with them mMode = 0 and mCheckChi2 = false)
Constructed ==
    [fin |-> FALSE,
     h1 |-> [id \in Slots1D |-> EmptyHist],
     h2 |-> [id \in Slots2D |-> EmptyHist],
     rng |-> [id \in PedOccupFamilies \X Modules |-> <<Unset, Unset>>],
     sp |-> [c \in {} |-> EmptyHist],
     nsp |-> 0,
     initBad |-> TRUE,
     badMap |-> NoMap]

\* the custom parameters initialize() reads: whether the key is there with a
\* value that contains "on"
Keys == [pedestal : BOOLEAN, LED : BOOLEAN, physics : BOOLEAN, chi2 : BOOLEAN]

\* InitHistograms: the error grids and the bad-map summary are new; the chi2
\* grids (if mCheckChi2) and the histograms of the mode are new, or Reset() if
\* they exist; the histograms of other modes, mFinalized, mInitBadMap and the
\* channel spectra stay as they are, and CreateLEDHistograms appends one empty
\* spectrum per channel to mSpectra
NSpectra == NCHANNELS - FirstChannel + 1

InitHistograms(mode, chi2, S) ==
    Propagate(S,
      [Emptied(S) EXCEPT
         !.nsp = IF mode = 2 THEN @ + NSpectra ELSE @,
         !.h1 = [id \in Slots1D |-> IF id \in Created1D(mode) THEN EmptyHist ELSE @[id]],
         !.h2 = [id \in Slots2D |->
                   IF id \in Created2D(mode, chi2) THEN EmptyHist ELSE @[id]]])

\* initialize(): pedestal sets mode 1, then LED mode 2, then physics mode 0;
\* chi2 sets mCheckChi2, and nothing clears it
initialize(keys, mode, chi2, S) ==
    LET m == IF keys.physics THEN 0
             ELSE IF keys.LED THEN 2
             ELSE IF keys.pedestal THEN 1
             ELSE mode
        c == chi2 \/ keys.chi2
    IN  [mode |-> m, chi2 |-> c, task |-> InitHistograms(m, c, S)]

\* the task's variables take the values of S
Holds(S) ==
    /\ mFinalized = S.fin
    /\ mHist1D = S.h1
    /\ mHist2D = S.h2
    /\ mRange = S.rng
    /\ mSpectra = S.sp
    /\ mSpectraSize = S.nsp
    /\ mInitBadMap = S.initBad
    /\ mBadMap = S.badMap

\* the state the first initialize() leaves, for the configured mode and chi2
\* switch
InitWith(modes, chi2s) ==
    \E keys \in Keys :
       LET I == initialize(keys, 0, FALSE, Constructed)
       IN  /\ I.mode \in modes
           /\ I.chi2 \in chi2s
           /\ mMode = I.mode
           /\ mCheckChi2 = I.chi2
           /\ Holds(I.task)
           /\ delivered = EmptyBag
           /\ errors = EmptyBag
           /\ fits = EmptyBag
           /\ cycleFits = EmptyBag
           /\ divisions = 0
           /\ lastOp = "initialize"
           /\ lastFin = FALSE
           /\ lastN = 0
           /\ proto = "idle"
           /\ budget = MaxItems

Init == InitWith(0 .. 2, BOOLEAN)

\* the call has returned: the task's variables take the values of S; mMode and
\* mCheckChi2 are left alone
Becomes(S, op, n) ==
    /\ \E R \in {S} :
          /\ mFinalized' = R.fin
          /\ mHist1D' = R.h1
          /\ mHist2D' = R.h2
          /\ mRange' = R.rng
          /\ mSpectra' = R.sp
          /\ mSpectraSize' = R.nsp
          /\ mInitBadMap' = R.initBad
          /\ mBadMap' = R.badMap
    /\ lastOp' = op
    /\ lastFin' = mFinalized
    /\ lastN' = n
    /\ UNCHANGED <<mMode, mCheckChi2>>

Step(from, to) == IF proto = from THEN to ELSE "bad"

Reset ==
    /\ Becomes(reset(Task), "reset", 0)
    /\ delivered' = EmptyBag /\ errors' = EmptyBag /\ fits' = EmptyBag
    /\ cycleFits' = EmptyBag
    /\ divisions' = 0
    /\ budget' = MaxItems
    /\ proto' = "bad"

StartOfActivity ==
    /\ Becomes(startOfActivity(Task), "startOfActivity", 0)
    /\ delivered' = EmptyBag /\ errors' = EmptyBag /\ fits' = EmptyBag
    /\ cycleFits' = EmptyBag
    /\ divisions' = 0
    /\ budget' = MaxItems
    /\ proto' = Step("idle", "active")

StartOfCycle ==
    /\ Becomes(startOfCycle(mMode, mCheckChi2, Task), "startOfCycle", 0)
    /\ cycleFits' = EmptyBag
    /\ UNCHANGED <<delivered, errors, fits, divisions, budget>>
    /\ proto' = Step("active", "cycle")

\* whether endOfCycle divides a chi2 grid that holds something
Chi2Divides == mCheckChi2 /\ ~mFinalized /\ fits # EmptyBag

EndOfCycle ==
    /\ Chi2Divides => divisions < MaxDivisions
    /\ Becomes(endOfCycle(mMode, mCheckChi2, Task), "endOfCycle", 0)
    /\ divisions' = IF Chi2Divides THEN divisions + 1 ELSE divisions
    /\ UNCHANGED <<delivered, errors, fits, cycleFits, budget>>
    /\ proto' = Step("cycle", "active")

EndOfActivity ==
    /\ Chi2Divides => divisions < MaxDivisions
    /\ Becomes(endOfActivity(mMode, mCheckChi2, Task), "endOfActivity", 0)
    /\ divisions' = IF Chi2Divides THEN divisions + 1 ELSE divisions
    /\ UNCHANGED <<delivered, errors, fits, cycleFits, budget>>
    /\ proto' = Step("active", "idle")

\* the (address, chi2) pairs of a fit-quality list of even length
RECURSIVE PairsOf(_)
PairsOf(chi2list) ==
    IF chi2list = <<>> THEN <<>>
    ELSE <<(<<chi2list[1], chi2list[2]>>)>> \o PairsOf(Tail(Tail(chi2list)))

\* monitorData on a batch of the input pool.  A call whose behaviour is
\* undefined leaves the histograms undetermined (monitorData returns them as
\* UndefinedH, UndefinedSp); the task goes on taking calls.
MonitorData(in) ==
    LET done == InTriggers(in.cells, in.cellsTR)
        pairs == IF mCheckChi2 /\ Len(in.chi2list) % 2 = 0 THEN PairsOf(in.chi2list)
                 ELSE <<>>
        used == Len(in.hwerrors) + Len(pairs) + Len(done)
    IN  /\ mInitBadMap \/ in.ccdb = SomeMap
        /\ used <= budget
        /\ mMode = 2 => Entries(mSpectra, DOMAIN mSpectra) + Len(done) <= MaxItems
        /\ Becomes(monitorData(mMode, mCheckChi2, Task, in), "monitorData", Len(done))
        /\ delivered' = delivered (+) BagOfSeq(done)
        /\ errors' = errors (+) BagOfSeq(in.hwerrors)
        /\ fits' = fits (+) BagOfSeq(pairs)
        /\ cycleFits' = cycleFits (+) BagOfSeq(pairs)
        /\ budget' = budget - used
        /\ UNCHANGED divisions
        /\ proto' = Step("cycle", "cycle")

\* initialize() called again, with the keys of the configuration
Initialize(keys) ==
    \E I \in {initialize(keys, mMode, mCheckChi2, Task)} :
        /\ I.task.nsp <= MaxLEDInits * NSpectra
        /\ mMode' = I.mode
        /\ mCheckChi2' = I.chi2
        /\ mFinalized' = I.task.fin
        /\ mHist1D' = I.task.h1
        /\ mHist2D' = I.task.h2
        /\ mRange' = I.task.rng
        /\ mSpectra' = I.task.sp
        /\ mSpectraSize' = I.task.nsp
        /\ mInitBadMap' = I.task.initBad
        /\ mBadMap' = I.task.badMap
        /\ lastOp' = "initialize"
        /\ lastFin' = mFinalized
        /\ lastN' = 0
        /\ delivered' = EmptyBag /\ errors' = EmptyBag /\ fits' = EmptyBag
        /\ cycleFits' = EmptyBag
        /\ divisions' = 0
        /\ UNCHANGED budget
        /\ proto' = "bad"

Lifecycle ==
    \/ Reset
    \/ StartOfActivity
    \/ StartOfCycle
    \/ EndOfCycle
    \/ EndOfActivity

\* every mode, every kind of record
MixedInputs ==
    Batches({Err(3, 5, 2)}, {<<1793, 5>>},
            {Cell(1793, RInt(12), T1, TRUE)},
            {NoMap, SomeMap})

Next == Lifecycle \/ \E in \in MixedInputs : MonitorData(in)

Spec == Init /\ [][Next]_vars

\* Pedestal runs: cells of both gains in two modules
PedestalInputs ==
    Batches({}, {},
            {Cell(1793, RInt(12), T0, TRUE), Cell(1793, RInt(7), T3, TRUE),
             Cell(14336, RInt(2), T2, FALSE)},
            {SomeMap})

InitPedestal == InitWith({1}, BOOLEAN)
NextPedestal == Lifecycle \/ \E in \in PedestalInputs : MonitorData(in)
SpecPedestal == InitPedestal /\ [][NextPedestal]_vars

\* Physics and LED runs: cells above and below the threshold, of both gains
PhysicsInputs ==
    Batches({}, {},
            {Cell(1793, RInt(60), T1, TRUE), Cell(1793, RInt(2), T2, FALSE),
             Cell(1793, RInt(7), T2, TRUE), Cell(14336, Rat(1, 2), T1, FALSE)},
            {SomeMap})

InitPhysics == InitWith({0, 2}, {FALSE})
NextPhysics == Lifecycle \/ \E in \in PhysicsInputs : MonitorData(in)
SpecPhysics == InitPhysics /\ [][NextPhysics]_vars

\* runs with chi2 checking on, in every mode
Chi2Inputs ==
    Batches({}, {<<1793, 5>>, <<1793 + Pow2(GainBit), 10>>}, {}, {SomeMap})

InitChi2 == InitWith(0 .. 2, {TRUE})
NextChi2 == Lifecycle \/ \E in \in Chi2Inputs : MonitorData(in)
SpecChi2 == InitChi2 /\ [][NextChi2]_vars

\* runs that deliver hardware errors only
ErrorInputs ==
    Batches({Err(3, 5, 2), Err(3, 5, 4), Err(0, 0, 0), Err(32, 5, 1)}, {}, {}, {SomeMap})

NextErrors == Lifecycle \/ \E in \in ErrorInputs : MonitorData(in)
SpecErrors == Init /\ [][NextErrors]_vars

\* Pedestal runs taken up in their first cycle, after a monitorData with
\* SeedRecords records of one cell: with one record more the cell holds 7
SeedRecords == 6
SeedCell == Cell(1793, Rat(15, 2), T1, TRUE)

SeedBatch ==
    [hwerrors |-> <<>>, ccdb |-> SomeMap, chi2list |-> <<>>,
     cells |-> [i \in 1 .. SeedRecords |-> SeedCell],
     cellsTR |-> <<[first |-> 0, n |-> SeedRecords]>>]

SeededInputs ==
    Batches({Err(3, 5, 2)}, {},
            {Cell(1793, RInt(12), T1, TRUE), Cell(1793, Rat(1, 2), T3, TRUE)},
            {SomeMap})

InitSeeded ==
    \E keys \in Keys :
       LET I == initialize(keys, 0, FALSE, Constructed)
           A == startOfCycle(I.mode, I.chi2, startOfActivity(I.task))
       IN  /\ I.mode = 1 /\ ~I.chi2
           /\ mMode = I.mode
           /\ mCheckChi2 = I.chi2
           /\ Holds(monitorData(I.mode, I.chi2, A, SeedBatch))
           /\ delivered = BagOfSeq(SeedBatch.cells)
           /\ errors = EmptyBag
           /\ fits = EmptyBag
           /\ cycleFits = EmptyBag
           /\ divisions = 0
           /\ lastOp = "monitorData"
           /\ lastFin = FALSE
           /\ lastN = SeedRecords
           /\ proto = "cycle"
           /\ budget = MaxItems

NextSeeded == Lifecycle \/ \E in \in SeededInputs : MonitorData(in)
SpecSeeded == InitSeeded /\ [][NextSeeded]_vars

\* runs in which the framework calls initialize() again
InitializeInputs ==
    Batches({}, {<<1793, 5>>}, {Cell(1793, RInt(12), T1, TRUE)}, {SomeMap})

NextInitialize ==
    \/ Lifecycle
    \/ \E in \in InitializeInputs : MonitorData(in)
    \/ \E keys \in Keys : Initialize(keys)
SpecInitialize == Init /\ [][NextInitialize]_vars

---------------------------------------------------------------------------
(***************************************************************************)
(* What the properties compare the histograms with: sums and counts taken  *)
(* from the records processed since the last reset.                        *)
(***************************************************************************)
RECURSIVE SumEnergy(_, _)
SumEnergy(B, rs) ==
    IF rs = {} THEN Zero
    ELSE LET r == CHOOSE x \in rs : TRUE
         IN  RAdd(RMul(RInt(CopiesIn(r, B)), r.energy), SumEnergy(B, rs \ {r}))

RECURSIVE SumTime(_, _)
SumTime(B, rs) ==
    IF rs = {} THEN Zero
    ELSE LET r == CHOOSE x \in rs : TRUE
         IN  RAdd(RMul(RInt(CopiesIn(r, B) * 10000000), r.time), SumTime(B, rs \ {r}))

RECURSIVE CountOf(_, _)
CountOf(B, rs) ==
    IF rs = {} THEN 0
    ELSE LET r == CHOOSE x \in rs : TRUE
         IN  CopiesIn(r, B) + CountOf(B, rs \ {r})

\* module 0..3 and grid bin of the cell a record belongs to
ModuleOf(absId) == (absId - 1) \div (nZ * nPhi)
RowOf(absId) == 1 + ((absId - 1) % (nZ * nPhi)) \div nZ
ColumnOf(absId) == 1 + ((absId - 1) % nZ)
GridBin(absId) == RowOf(absId) + (nPhi + 2) * ColumnOf(absId)

\* the records of gain hg processed for the cell (mod, bin)
CellsAt(hg, mod, bin) ==
    {r \in BagToSet(delivered) : r.hg = hg /\ ModuleOf(r.absId) = mod /\ GridBin(r.absId) = bin}

PedMean(hg, mod) == mHist2D[<<IF hg THEN "kHGmean" ELSE "kLGmean", mod>>]
PedRms(hg, mod) == mHist2D[<<IF hg THEN "kHGrms" ELSE "kLGrms", mod>>]
PedOccup(hg, mod) == mHist2D[<<IF hg THEN "kHGoccup" ELSE "kLGoccup", mod>>]

\* every bin a pedestal grid of (hg, mod) holds or should hold something in
PedBins(hg, mod) ==
    DOMAIN PedMean(hg, mod) \cup DOMAIN PedRms(hg, mod) \cup DOMAIN PedOccup(hg, mod)
      \cup {GridBin(r.absId) : r \in {x \in BagToSet(delivered) :
                                         x.hg = hg /\ ModuleOf(x.absId) = mod}}

Mean(total, n) == IF n = 0 THEN Zero ELSE RDiv(total, RInt(n))

\* two ways to compare what a bin holds with the number it stands for: the
\* same number, or the number up to the rounding of the float arithmetic
\* (a relative difference of at most 1 / Tolerance, sixteen units in the last
\* place of a float)
Tolerance == Two24 \div 16

Equal(a, b) == a = b

Near(a, b) ==
    LET g == Gcd(a[2], b[2])
        l == (a[2] \div g) * b[2]
        x == a[1] * (l \div a[2])
        y == b[1] * (l \div b[2])
    IN  Abs(x - y) <= Abs(y) \div Tolerance

\* the value grids hold the sums of the records
PedestalRaw(Same(_, _)) ==
    \A hg \in BOOLEAN, mod \in Modules : \A bin \in PedBins(hg, mod) :
       LET rs == CellsAt(hg, mod, bin)
       IN  /\ Same(GetBinContent(PedMean(hg, mod), bin), SumEnergy(delivered, rs))
           /\ Same(GetBinContent(PedRms(hg, mod), bin), SumTime(delivered, rs))

\* the value grids hold sum / number of records
PedestalMeans(Same(_, _)) ==
    \A hg \in BOOLEAN, mod \in Modules : \A bin \in PedBins(hg, mod) :
       LET rs == CellsAt(hg, mod, bin)
           n == CountOf(delivered, rs)
       IN  /\ Same(GetBinContent(PedMean(hg, mod), bin), Mean(SumEnergy(delivered, rs), n))
           /\ Same(GetBinContent(PedRms(hg, mod), bin), Mean(SumTime(delivered, rs), n))

\* the occupancy grids hold the number of records
PedestalCounts ==
    \A hg \in BOOLEAN, mod \in Modules : \A bin \in PedBins(hg, mod) :
       GetBinContent(PedOccup(hg, mod), bin) = RInt(CountOf(delivered, CellsAt(hg, mod, bin)))

\* some cell of a pedestal grid got at least n records, of energies that differ
PedestalCellWith(n) ==
    \E hg \in BOOLEAN, mod \in Modules : \E bin \in DOMAIN PedOccup(hg, mod) :
       /\ ~RLess(PedOccup(hg, mod)[bin], RInt(n))
       /\ Cardinality(CellsAt(hg, mod, bin)) >= 2

(***************************************************************************)
(* C1.  Pedestal mode, calls in any order: records are added to the mean   *)
(* and RMS grids only while these hold sums.  After a monitorData the flag *)
(* is false, and in every state the grids hold sum / occupancy when        *)
(* mFinalized is true and the plain sums when it is false (the sums and    *)
(* the quotients as the float grids hold them, to rounding).               *)
(***************************************************************************)
C1_PedestalAccumulatesOnSums ==
    mMode = 1 =>
      /\ lastOp = "monitorData" => ~mFinalized
      /\ IF mFinalized THEN PedestalMeans(Near) ELSE PedestalRaw(Near)

\* monitorData came directly after a finalize and added to a cell that has
\* two records or more
C1_Witness ==
    /\ mMode = 1 /\ lastOp = "monitorData" /\ lastFin /\ lastN > 0
    /\ ~mFinalized /\ PedestalCellWith(2)

(***************************************************************************)
(* C4.  Pedestal mode, after every endOfCycle: occupancy = number of       *)
(* records of the cell and gain since the last reset; the mean grid holds  *)
(* the sum of their energies / that number and the RMS grid the sum of     *)
(* 1e7 * time / that number to the rounding of the float arithmetic: the   *)
(* quotient is rounded to a float, and so is every product and quotient of *)
(* the cycle boundaries before.  (As first stated, the grids equal the     *)
(* quotients: C4_PedestalMeansAfterEndOfCycle.)                            *)
(***************************************************************************)
C4_PedestalMeansWithinRounding ==
    (mMode = 1 /\ lastOp \in {"endOfCycle", "endOfActivity"}) =>
      PedestalCounts /\ PedestalMeans(Near)

C4_PedestalMeansAfterEndOfCycle ==
    (mMode = 1 /\ lastOp \in {"endOfCycle", "endOfActivity"}) =>
      PedestalCounts /\ PedestalMeans(Equal)

\* endOfCycle has just divided grids with a cell of three records
C4_Witness ==
    /\ mMode = 1 /\ lastOp = "endOfCycle" /\ mFinalized /\ ~lastFin
    /\ PedestalCellWith(3)

(***************************************************************************)
(* C3.  Round trip.  From any state of a Pedestal run whose grids hold     *)
(* sums, endOfCycle (value / occupancy) followed, with nothing added in    *)
(* between, by startOfCycle or by the guard of FillPedestalHistograms      *)
(* (value * occupancy) leaves the occupancy grids as they were and gives   *)
(* every value grid its content back to the rounding of the float quotient *)
(* and product.  (As first stated, its content back:                       *)
(* C3_FinalizeUnfinalizeRoundTrip; a cell of 7 records with the sum 57     *)
(* comes back as 57 + 2^-18.)                                              *)
(***************************************************************************)
PedestalSlots == (PedValueFamilies \cup PedOccupFamilies) \X Modules

SameHist(Same(_, _), h, g) ==
    \A b \in DOMAIN h \cup DOMAIN g : Same(GetBinContent(h, b), GetBinContent(g, b))

RoundTrip(Same(_, _)) ==
    (mMode = 1 /\ ~mFinalized) =>
      \E F \in {endOfCycle(mMode, mCheckChi2, Task)} :
      \E U \in {startOfCycle(mMode, mCheckChi2, F)} :
      \E G \in {FillPedestalHistograms(F, <<>>, <<>>)} :
          /\ F.fin /\ ~U.fin /\ ~G.fin
          /\ \A id \in PedestalSlots :
               IF id[1] \in PedOccupFamilies
               THEN F.h2[id] = mHist2D[id] /\ U.h2[id] = mHist2D[id]
                      /\ G.h2[id] = mHist2D[id]
               ELSE SameHist(Same, U.h2[id], mHist2D[id])
                      /\ SameHist(Same, G.h2[id], mHist2D[id])

C3_RoundTripWithinRounding == RoundTrip(Near)

C3_FinalizeUnfinalizeRoundTrip == RoundTrip(Equal)

\* startOfCycle has just undone a finalize of grids with a cell of seven
\* records, and the cell does not hold the sum of their energies any more
C3_Witness ==
    /\ mMode = 1 /\ lastOp = "startOfCycle" /\ lastFin /\ ~mFinalized
    /\ PedestalCellWith(SeedRecords + 1)
    /\ ~PedestalRaw(Equal)

(***************************************************************************)
(* C2.  chi2 checking on, calls in the order startOfActivity,              *)
(* (startOfCycle, monitorData*, endOfCycle)*, endOfActivity: fit-quality   *)
(* values are added to the chi2 grids only while these hold sums.  Inside  *)
(* a cycle the grids hold the sums of 0.2 * chi2 of the pairs processed    *)
(* since the last reset; between cycles they hold sum / number of pairs,   *)
(* divided once (to the rounding of the float arithmetic).                 *)
(***************************************************************************)
FitCell(address) == address % Pow2(GainBit)

FitsAt(mod, bin) ==
    {f \in BagToSet(fits) : ModuleOf(FitCell(f[1])) = mod /\ GridBin(FitCell(f[1])) = bin}

RECURSIVE SumChi2(_, _)
SumChi2(B, fs) ==
    IF fs = {} THEN Zero
    ELSE LET f == CHOOSE x \in fs : TRUE
         IN  RAdd(Rat(CopiesIn(f, B) * f[2], 5), SumChi2(B, fs \ {f}))

Chi2Bins(mod) ==
    DOMAIN mHist2D[<<"kChi2", mod>>]
      \cup {GridBin(FitCell(f[1])) : f \in {x \in BagToSet(fits) : ModuleOf(FitCell(x[1])) = mod}}

Chi2Raw ==
    \A mod \in Modules : \A bin \in Chi2Bins(mod) :
       Near(GetBinContent(mHist2D[<<"kChi2", mod>>], bin), SumChi2(fits, FitsAt(mod, bin)))

Chi2Means ==
    \A mod \in Modules : \A bin \in Chi2Bins(mod) :
       Near(GetBinContent(mHist2D[<<"kChi2", mod>>], bin),
            Mean(SumChi2(fits, FitsAt(mod, bin)), CountOf(fits, FitsAt(mod, bin))))

C2_Chi2AccumulatesOnSums ==
    (mCheckChi2 /\ proto # "bad") => IF proto = "cycle" THEN Chi2Raw ELSE Chi2Means

(***************************************************************************)
(* C5.  Physics and LED mode: for every cell, the occupancy is the number  *)
(* n of accepted samples (energy, times 16 for low gain, above the         *)
(* threshold) processed since the last reset, in however many cycles, and  *)
(* the mean-energy grid holds their sum / n to the rounding of the float   *)
(* arithmetic: every update rounds its quotient to a float.  (As first     *)
(* stated, the grid equals sum / n: C5_RunningMeanIsTheMean; 60, 60 and 32 *)
(* leave the float nearest to 152 / 3.)                                    *)
(***************************************************************************)
HighGainEquivalent(r) == IF r.hg THEN r.energy ELSE RMul(RInt(16), r.energy)

AcceptedAt(mod, bin) ==
    {r \in BagToSet(delivered) :
       /\ RLess(RInt(kOcccupancyTh), HighGainEquivalent(r))
       /\ ModuleOf(r.absId) = mod /\ GridBin(r.absId) = bin}

RECURSIVE SumEquivalent(_, _)
SumEquivalent(B, rs) ==
    IF rs = {} THEN Zero
    ELSE LET r == CHOOSE x \in rs : TRUE
         IN  RAdd(RMul(RInt(CopiesIn(r, B)), HighGainEquivalent(r)),
                  SumEquivalent(B, rs \ {r}))

PhysicsBins(mod) ==
    DOMAIN mHist2D[<<"kCellOccup", mod>>] \cup DOMAIN mHist2D[<<"kCellE", mod>>]
      \cup {GridBin(r.absId) : r \in {x \in BagToSet(delivered) : ModuleOf(x.absId) = mod}}

RunningMeanHolds(Same(_, _)) ==
    mMode \in {0, 2} =>
      \A mod \in Modules : \A bin \in PhysicsBins(mod) :
         LET rs == AcceptedAt(mod, bin)
             n == CountOf(delivered, rs)
         IN  /\ GetBinContent(mHist2D[<<"kCellOccup", mod>>], bin) = RInt(n)
             /\ Same(GetBinContent(mHist2D[<<"kCellE", mod>>], bin),
                     Mean(SumEquivalent(delivered, rs), n))

C5_RunningMeanNearTheMean == RunningMeanHolds(Near)

C5_RunningMeanIsTheMean == RunningMeanHolds(Equal)

\* a cell with three accepted samples of energies that differ: more than one
\* batch holds
C5_Witness ==
    /\ mMode = 0 /\ lastOp = "monitorData"
    /\ \E mod \in Modules : \E bin \in DOMAIN mHist2D[<<"kCellOccup", mod>>] :
         /\ mHist2D[<<"kCellOccup", mod>>][bin] = RInt(3)
         /\ Cardinality(AcceptedAt(mod, bin)) >= 2

(***************************************************************************)
(* C6.  Threshold exclusion.  A monitorData whose cells all have an energy *)
(* (times 16 for low gain) below the threshold leaves the occupancy grids, *)
(* the mean-energy grids, the energy spectra and the time-vs-energy grids  *)
(* exactly as they were.                                                   *)
(***************************************************************************)
PhysicsAccumulators ==
    <<[id \in PhysFamilies2D \X Modules |-> mHist2D[id]],
      [id \in {"kCellSp"} \X Modules |-> mHist1D[id]]>>

BelowThreshold(r) == RLess(HighGainEquivalent(r), RInt(kOcccupancyTh))

C6_BelowThresholdChangesNothing ==
    [][(/\ mMode \in {0, 2}
        /\ lastOp' = "monitorData"
        /\ delivered \sqsubseteq delivered'
        /\ \A r \in BagToSet(delivered' (-) delivered) : BelowThreshold(r))
         => PhysicsAccumulators' = PhysicsAccumulators]_vars

\* a batch of cells was processed, and the records so far hold one below the
\* threshold in a cell that also has an accepted one
C6_Witness ==
    /\ mMode = 0 /\ lastOp = "monitorData" /\ lastN > 0
    /\ \E r \in BagToSet(delivered) :
         /\ BelowThreshold(r)
         /\ AcceptedAt(ModuleOf(r.absId), GridBin(r.absId)) # {}

(***************************************************************************)
(* C7.  Gain rescale.  From every state, the Physics rule applied to a     *)
(* low-gain record of energy e leaves the occupancy, mean-energy, spectrum *)
(* and time-vs-energy accumulators as it does applied to a high-gain       *)
(* record of the same cell and time with energy 16 e.                      *)
(***************************************************************************)
AfterPhysics(c) ==
    LET S == FillPhysicsHistograms(Task, <<c>>, <<[first |-> 0, n |-> 1]>>)
    IN  <<[id \in PhysFamilies2D \X Modules |-> S.h2[id]],
          [id \in {"kCellSp"} \X Modules |-> S.h1[id]]>>

C7_LowGainIsSixteenTimesHighGain ==
    mMode \in {0, 2} =>
      \A a \in {1793, 14336}, e \in {Rat(5, 8), RInt(2), RInt(70)}, t \in {T2} :
         AfterPhysics(Cell(a, e, t, FALSE)) = AfterPhysics(Cell(a, RMul(RInt(16), e), t, TRUE))

\* an accepted low-gain record was processed into a cell that also holds a
\* high-gain one
C7_Witness ==
    /\ mMode = 0 /\ lastOp = "monitorData"
    /\ \E r \in BagToSet(delivered) :
         /\ ~r.hg
         /\ \E q \in AcceptedAt(ModuleOf(r.absId), GridBin(r.absId)) : q.hg
         /\ r \in AcceptedAt(ModuleOf(r.absId), GridBin(r.absId))

(***************************************************************************)
(* C8.  Error tally.  For every key (FEC, DDL) inside the grid, the count  *)
(* cell holds the number of error records with that key processed since    *)
(* the last reset, and the type cell holds the bitwise or of 1 << code     *)
(* over those records; the cells of the other keys hold nothing of them.   *)
(***************************************************************************)
ErrorKeys == (0 .. 31) \X (0 .. 14)

KeyBin(key) == (key[1] + 1) + 34 * (key[2] + 1)

ErrorsOf(key) == {e \in BagToSet(errors) : e.fec = key[1] /\ e.ddl = key[2]}

RECURSIVE SumPow2(_)
SumPow2(codes) ==
    IF codes = {} THEN 0
    ELSE LET c == CHOOSE x \in codes : TRUE
         IN  Pow2(c) + SumPow2(codes \ {c})

C8_ErrorTally ==
    \A key \in ErrorKeys :
       /\ GetBinContent(mHist2D[<<"kErrorNumber", 0>>], KeyBin(key))
            = RInt(CountOf(errors, ErrorsOf(key)))
       /\ GetBinContent(mHist2D[<<"kErrorType", 0>>], KeyBin(key))
            = RInt(SumPow2({e.err : e \in ErrorsOf(key)}))

\* (3, 5) got code 2 and code 4: count 2, bitmask 0b10100
C8_Witness ==
    /\ lastOp = "monitorData"
    /\ GetBinContent(mHist2D[<<"kErrorNumber", 0>>], KeyBin(<<3, 5>>)) = RInt(2)
    /\ GetBinContent(mHist2D[<<"kErrorType", 0>>], KeyBin(<<3, 5>>)) = RInt(20)
    /\ \E e \in BagToSet(errors) : e.fec = 0 \/ e.fec = 32

(***************************************************************************)
(* C9.  Address outside the channel range.  A cell or a fit-quality pair   *)
(* whose address is not one of the channels FirstChannel .. NCHANNELS      *)
(* changes no accumulator: the occupancy grids and the chi2-count grids    *)
(* count the records with a channel address only.  (Stated for the states  *)
(* in which the content of the grids is determined; an address above the   *)
(* last channel leaves it undetermined.)                                   *)
(***************************************************************************)
\* a fit-quality list that ends after an address
OddFitBatch ==
    [hwerrors |-> <<>>, ccdb |-> SomeMap, chi2list |-> <<1793, 5, 1793>>,
     cells |-> <<>>, cellsTR |-> <<[first |-> 0, n |-> 0]>>]

\* addresses below the first channel, of channels, and above the last one
AddressInputs ==
    Batches({}, {<<100, 5>>, <<1793, 5>>},
            {Cell(100, RInt(12), T1, TRUE), Cell(1793, RInt(12), T1, TRUE),
             Cell(1793, RInt(60), T2, TRUE), Cell(NCHANNELS + 1, RInt(12), T1, TRUE)},
            {SomeMap})
      \cup {OddFitBatch}

InitAddress == InitWith({0, 1}, BOOLEAN)
NextAddress == Lifecycle \/ \E in \in AddressInputs : MonitorData(in)
SpecAddress == InitAddress /\ [][NextAddress]_vars

IsChannel(address) == address >= FirstChannel /\ address <= NCHANNELS

ChannelCells(rs) == {r \in rs : IsChannel(r.absId)}

ChannelFits(fs) == {f \in fs : IsChannel(FitCell(f[1]))}

C9_OutOfRangeRecordsAreSkipped ==
    ~Undefined(Task) =>
      /\ mMode = 0 =>
           \A mod \in Modules : \A bin \in PhysicsBins(mod) :
              GetBinContent(mHist2D[<<"kCellOccup", mod>>], bin)
                = RInt(CountOf(delivered, ChannelCells(AcceptedAt(mod, bin))))
      /\ mMode = 1 =>
           \A hg \in BOOLEAN, mod \in Modules : \A bin \in PedBins(hg, mod) :
              GetBinContent(PedOccup(hg, mod), bin)
                = RInt(CountOf(delivered, ChannelCells(CellsAt(hg, mod, bin))))
      /\ mCheckChi2 =>
           \A mod \in Modules : \A bin \in Chi2Bins(mod) :
              GetBinContent(mHist2D[<<"kChi2Norm", mod>>], bin)
                = RInt(CountOf(fits, ChannelFits(FitsAt(mod, bin))))

(***************************************************************************)
(* C10.  Mode isolation.  No step writes a histogram of a mode that is not *)
(* the active one: in Physics and LED mode the pedestal grids and          *)
(* summaries stay as they are, in Pedestal mode the occupancy, mean-energy *)
(* and time-vs-energy grids, the energy spectra, the channel spectra and   *)
(* the peak-count grids, in Physics mode the channel spectra and the       *)
(* peak-count grids, and with chi2 checking off the chi2 grids and their   *)
(* counts.                                                                 *)
(***************************************************************************)
PedestalAccumulators ==
    <<[id \in PedestalSlots |-> mHist2D[id]],
      [id \in PedSummaryFamilies \X Modules |-> mHist1D[id]]>>

LEDAccumulators == <<mSpectra, [id \in {"kLEDNpeaks"} \X Modules |-> mHist2D[id]]>>

Chi2Accumulators == [id \in Chi2Families \X Modules |-> mHist2D[id]]

C10_ModeIsolation ==
    [][/\ mMode \in {0, 2} => UNCHANGED PedestalAccumulators
       /\ mMode = 1 => UNCHANGED <<PhysicsAccumulators, LEDAccumulators>>
       /\ mMode = 0 => UNCHANGED LEDAccumulators
       /\ ~mCheckChi2 => UNCHANGED Chi2Accumulators]_vars

\* a Physics run without chi2 checking has processed cells and closed a cycle
C10_Witness ==
    /\ mMode = 0 /\ ~mCheckChi2 /\ lastOp = "endOfCycle"
    /\ \E mod \in Modules : DOMAIN mHist2D[<<"kCellOccup", mod>>] # {}
    /\ errors # EmptyBag

(***************************************************************************)
(* C11.  After every startOfActivity, whatever came before, the finalized  *)
(* flag is false and every accumulator is empty: every 1D and 2D           *)
(* histogram, and in LED mode the spectrum of every channel.               *)
(***************************************************************************)
C11_StartOfActivityZeroesAll ==
    lastOp = "startOfActivity" =>
      /\ ~mFinalized
      /\ \A id \in Slots1D : mHist1D[id] = EmptyHist
      /\ \A id \in Slots2D : mHist2D[id] = EmptyHist
      /\ \A ch \in DOMAIN mSpectra : mSpectra[ch] = EmptyHist

(***************************************************************************)
(* C12.  LED rule.  A monitorData in LED mode leaves the occupancy,        *)
(* mean-energy, spectrum and time-vs-energy accumulators as the Physics    *)
(* rule leaves them on the same cells from the same state, and adds to the *)
(* spectrum of each channel one entry per high-gain cell of that channel,  *)
(* whatever its energy, and none for a low-gain cell; startOfCycle,        *)
(* endOfCycle and endOfActivity leave the channel spectra as they are.     *)
(***************************************************************************)
EntriesIn(sp, ch) == IF ch \in DOMAIN sp THEN HistSum(sp[ch], DOMAIN sp[ch]) ELSE 0

PhysicsOf(S) ==
    <<[id \in PhysFamilies2D \X Modules |-> S.h2[id]],
      [id \in {"kCellSp"} \X Modules |-> S.h1[id]]>>

LEDTestCells ==
    <<Cell(1793, RInt(60), T1, TRUE), Cell(1793, RInt(2), T2, FALSE),
      Cell(14336, RInt(7), T2, TRUE)>>

LEDTestTriggers == {<<[first |-> 0, n |-> 3]>>, <<[first |-> 0, n |-> 1], [first |-> 2, n |-> 1]>>}

C12_LEDRule ==
    /\ [](mMode = 2 =>
            \A tr \in LEDTestTriggers :
               PhysicsOf(FillLEDHistograms(Task, LEDTestCells, tr))
                 = PhysicsOf(FillPhysicsHistograms(Task, LEDTestCells, tr)))
    /\ [][mMode = 2 =>
         /\ (lastOp' = "monitorData" /\ delivered \sqsubseteq delivered') =>
              LET new == delivered' (-) delivered
              IN  /\ \A ch \in DOMAIN mSpectra' \cup {r.absId - FirstChannel : r \in BagToSet(new)} :
                       EntriesIn(mSpectra', ch)
                         = EntriesIn(mSpectra, ch)
                             + CountOf(new, {r \in BagToSet(new) :
                                               r.hg /\ r.absId - FirstChannel = ch})
         /\ lastOp' \in {"startOfCycle", "endOfCycle", "endOfActivity"} =>
              mSpectra' = mSpectra]_vars

\* a cycle of an LED run is closed; a channel spectrum has two entries, one of
\* them of a high-gain cell below the threshold, and a low-gain cell was seen
C12_Witness ==
    /\ mMode = 2 /\ lastOp = "endOfCycle"
    /\ \E ch \in DOMAIN mSpectra : EntriesIn(mSpectra, ch) = 2
    /\ \E r \in BagToSet(delivered) : r.hg /\ BelowThreshold(r)
    /\ \E r \in BagToSet(delivered) : ~r.hg

(***************************************************************************)
(* C13.  chi2 checking on: after each endOfCycle, a cell that got          *)
(* fit-quality values in the cycle just closed holds the sum of the        *)
(* 0.2 * chi2 of that cycle divided by their number (to the rounding of    *)
(* the float arithmetic), with nothing of the earlier cycles of the        *)
(* activity in it.                                                         *)
(***************************************************************************)
CycleFitsAt(mod, bin) ==
    {f \in BagToSet(cycleFits) :
       ModuleOf(FitCell(f[1])) = mod /\ GridBin(FitCell(f[1])) = bin}

C13_Chi2FreshEachCycle ==
    (mCheckChi2 /\ proto # "bad" /\ lastOp = "endOfCycle") =>
      \A mod \in Modules :
         \A bin \in {GridBin(FitCell(f[1])) :
                       f \in {x \in BagToSet(cycleFits) : ModuleOf(FitCell(x[1])) = mod}} :
            Near(GetBinContent(mHist2D[<<"kChi2", mod>>], bin),
                 Mean(SumChi2(cycleFits, CycleFitsAt(mod, bin)),
                      CountOf(cycleFits, CycleFitsAt(mod, bin))))

(***************************************************************************)
(* C14.  Fit-quality accumulation.  From every state, a pair (address,     *)
(* chi2) adds the float 0.2 * chi2 to the chi2 grid, a float sum, and 1 to *)
(* the chi2-count grid at the cell of the address with bit 14 cleared,     *)
(* whatever the value; the same pair with bit 14 set does exactly the      *)
(* same, and no other cell and no other histogram changes.                 *)
(***************************************************************************)
AddedAt(h, bin, w) ==
    [b \in DOMAIN h \cup {bin} |->
       IF b = bin THEN Float(RAdd(GetBinContent(h, bin), w)) ELSE h[b]]

WithFit(channel, val) ==
    [id \in Slots2D |->
       IF id = <<"kChi2", ModuleOf(channel)>>
       THEN AddedAt(mHist2D[id], GridBin(channel), Float(Rat(val, 5)))
       ELSE IF id = <<"kChi2Norm", ModuleOf(channel)>>
       THEN AddedAt(mHist2D[id], GridBin(channel), One)
       ELSE mHist2D[id]]

C14_FitQualityAccumulation ==
    mCheckChi2 =>
      \A channel \in {1793, 14336}, val \in {1, 10} :
         /\ FillChi2(mHist2D, channel, val) = WithFit(channel, val)
         /\ FillChi2(mHist2D, channel + Pow2(GainBit), val) = WithFit(channel, val)

\* two pairs whose addresses differ in bit 14 only were counted in one cell
C14_Witness ==
    /\ mCheckChi2 /\ lastOp = "monitorData" /\ divisions = 0
    /\ {<<1793, 5>>, <<1793 + Pow2(GainBit), 10>>} \subseteq BagToSet(fits)
    /\ GetBinContent(mHist2D[<<"kChi2Norm", ModuleOf(1793)>>], GridBin(1793)) = RInt(2)
    /\ GetBinContent(mHist2D[<<"kChi2", ModuleOf(1793)>>], GridBin(1793)) = RInt(3)

(***************************************************************************)
(* C15.  The monitorData that loads a bad map leaves, in the summary bin   *)
(* of each module 0..3, the number of the channels FirstChannel ..         *)
(* NCHANNELS of that module that the map flags as not good.                *)
(***************************************************************************)
BadChannels(map, mod) == {a \in map.bad : IsChannel(a) /\ ModuleOf(a) = mod}

C15_BadMapSummaryCountsChannels ==
    [][(mInitBadMap /\ ~mInitBadMap' /\ mBadMap'.ok) =>
         \A mod \in Modules :
            GetBinContent(mHist1D'[<<"kBadMapSummary", 0>>], mod + 1)
              = RInt(Cardinality(BadChannels(mBadMap', mod)))]_vars

(***************************************************************************)
(* C16.  The bad map is loaded by the first monitorData of every activity, *)
(* the second and later ones included: after every monitorData of a run    *)
(* that follows the protocol, the summary holds the counts of the map the  *)
(* task has (counted as monitorData counts them).                          *)
(***************************************************************************)
C16_BadMapLoadedEachActivity ==
    (proto # "bad" /\ lastOp = "monitorData" /\ mBadMap.ok) =>
      \A mod \in Modules :
         GetBinContent(mHist1D[<<"kBadMapSummary", 0>>], mod + 1)
           = RInt(BadCount(mBadMap.bad, mod))

(***************************************************************************)
(* C17.  No bad map.  From every state in which the map is still to be     *)
(* loaded, a monitorData that gets no map leaves every summary bin zero    *)
(* and everything else exactly as the same monitorData with a map leaves   *)
(* it: the flag, all other histograms with the error tally of this call    *)
(* in them, the ranges and the channel spectra.                            *)
(***************************************************************************)
MapTestBatch(ccdb) ==
    [hwerrors |-> <<Err(3, 5, 2)>>, ccdb |-> ccdb, chi2list |-> <<1793, 5>>,
     cells |-> <<Cell(1793, RInt(12), T1, TRUE)>>, cellsTR |-> <<[first |-> 0, n |-> 1]>>]

C17_MissingBadMapIsRecovered ==
    mInitBadMap =>
      LET A == monitorData(mMode, mCheckChi2, Task, MapTestBatch(NoMap))
          B == monitorData(mMode, mCheckChi2, Task, MapTestBatch(SomeMap))
      IN  /\ A.h1[<<"kBadMapSummary", 0>>] = EmptyHist
          /\ B.h1[<<"kBadMapSummary", 0>>] # EmptyHist
          /\ \A id \in Slots1D \ {<<"kBadMapSummary", 0>>} : A.h1[id] = B.h1[id]
          /\ A.h2 = B.h2 /\ A.fin = B.fin /\ A.rng = B.rng /\ A.sp = B.sp
          /\ GetBinContent(A.h2[<<"kErrorNumber", 0>>], KeyBin(<<3, 5>>))
               = RAdd(GetBinContent(mHist2D[<<"kErrorNumber", 0>>], KeyBin(<<3, 5>>)), One)

\* the map was asked for and not got, by a monitorData that brought a cell; an
\* error is in the tally and the summary is empty
C17_Witness ==
    /\ lastOp = "monitorData" /\ ~mInitBadMap /\ ~mBadMap.ok
    /\ lastN = 1 /\ BagCardinality(delivered) = 1 /\ BagCardinality(errors) = 1
    /\ mHist1D[<<"kBadMapSummary", 0>>] = EmptyHist
    /\ GetBinContent(mHist2D[<<"kErrorNumber", 0>>], KeyBin(<<3, 5>>)) = One

(***************************************************************************)
(* C18.  Peak count, LED mode.  From every state, endOfCycle leaves in the *)
(* peak grid, at the cell of every channel, the number of peaks found in   *)
(* the spectrum of that channel, and leaves the channel spectra, the       *)
(* occupancy, mean-energy, spectrum and time-vs-energy accumulators, the   *)
(* error tally and the flag as they are; a second endOfCycle right after   *)
(* it leaves the same peak grid.                                           *)
(***************************************************************************)
PeaksOf(S) == [mod \in Modules |-> S.h2[<<"kLEDNpeaks", mod>>]]

ChannelsAt(mod, bin) ==
    {ch \in DOMAIN mSpectra :
       ModuleOf(ch + FirstChannel) = mod /\ GridBin(ch + FirstChannel) = bin}

C18_PeakCountFinalizer ==
    mMode = 2 =>
      LET F == endOfCycle(mMode, mCheckChi2, Task)
          G == endOfCycle(mMode, mCheckChi2, F)
      IN  /\ \A ch \in DOMAIN mSpectra \cup {0, NCHANNELS - FirstChannel} :
               GetBinContent(PeaksOf(F)[ModuleOf(ch + FirstChannel)], GridBin(ch + FirstChannel))
                 = RInt(Search(IF ch \in DOMAIN mSpectra THEN mSpectra[ch] ELSE EmptyHist))
          /\ \A mod \in Modules : \A bin \in DOMAIN PeaksOf(F)[mod] : ChannelsAt(mod, bin) # {}
          /\ F.sp = mSpectra /\ F.fin = mFinalized /\ F.h1 = mHist1D
          /\ PhysicsOf(F) = PhysicsAccumulators
          /\ \A id \in {<<"kErrorNumber", 0>>, <<"kErrorType", 0>>} : F.h2[id] = mHist2D[id]
          /\ PeaksOf(G) = PeaksOf(F)

\* endOfActivity has counted the peaks a second time, and a channel has one
C18_Witness ==
    /\ mMode = 2 /\ lastOp = "endOfActivity" /\ proto = "idle"
    /\ \E mod \in Modules : \E bin \in DOMAIN mHist2D[<<"kLEDNpeaks", mod>>] :
         mHist2D[<<"kLEDNpeaks", mod>>][bin] = One

(***************************************************************************)
(* C19.  From every state, in every mode and with chi2 checking on or off, *)
(* a second endOfCycle right after an endOfCycle leaves the pedestal mean  *)
(* and RMS grids and the chi2 grids as the first one left them.            *)
(***************************************************************************)
C19_RepeatedEndOfCycleIsNoOp ==
    LET F == endOfCycle(mMode, mCheckChi2, Task)
        G == endOfCycle(mMode, mCheckChi2, F)
    IN  \A id \in (PedValueFamilies \cup {"kChi2"}) \X Modules : G.h2[id] = F.h2[id]

(***************************************************************************)
(* C20.  Pedestal rule.  From every state of a Pedestal run, a high-gain   *)
(* cell, whatever its energy, adds its energy to the HG mean grid,         *)
(* 1e7 * time to the HG RMS grid (to the rounding of the float weight and  *)
(* the float sum) and 1 to the HG occupancy grid at its cell and changes   *)
(* nothing else; a low-gain cell does so on the LG grids.                  *)
(***************************************************************************)

PedestalUpdate(c, id) ==
    IF id[2] # ModuleOf(c.absId) THEN mHist2D[id]
    ELSE IF id[1] = (IF c.hg THEN "kHGmean" ELSE "kLGmean")
    THEN AddedAt(mHist2D[id], GridBin(c.absId), c.energy)
    ELSE IF id[1] = (IF c.hg THEN "kHGrms" ELSE "kLGrms")
    THEN AddedAt(mHist2D[id], GridBin(c.absId), RMul(RInt(10000000), c.time))
    ELSE IF id[1] = (IF c.hg THEN "kHGoccup" ELSE "kLGoccup")
    THEN AddedAt(mHist2D[id], GridBin(c.absId), One)
    ELSE mHist2D[id]

C20_PedestalRuleFrame ==
    mMode = 1 =>
      \A c \in {Cell(1793, One, T1, TRUE), Cell(1793, RInt(12), T2, FALSE),
                Cell(1793, RInt(3), T3, TRUE)} :
         LET A == FillPedestalCell(mHist2D, c)
         IN  /\ \A id \in PedestalSlots :
                  IF id[1] \in {"kHGrms", "kLGrms"}
                  THEN SameHist(Near, A[id], PedestalUpdate(c, id))
                  ELSE SameHist(Equal, A[id], PedestalUpdate(c, id))
             /\ \A id \in Slots2D \ PedestalSlots : A[id] = mHist2D[id]

\* a Pedestal run has processed cells of both gains, and an RMS cell holds
\* the sum of its weights to rounding only
C20_Witness ==
    /\ mMode = 1 /\ lastOp = "monitorData" /\ lastN > 0
    /\ PedestalRaw(Near) /\ ~PedestalRaw(Equal)
    /\ \E r \in BagToSet(delivered) : r.hg
    /\ \E r \in BagToSet(delivered) : ~r.hg
    /\ \E mod \in Modules : DOMAIN PedOccup(TRUE, mod) # {}
    /\ \E mod \in Modules : DOMAIN PedOccup(FALSE, mod) # {}

(***************************************************************************)
(* C21.  Pedestal summaries.  After every endOfCycle of a Pedestal run,    *)
(* the mean summary of a module and gain holds one entry for each cell of  *)
(* the mean grid whose value is greater than zero, in the bin of that      *)
(* value, and nothing else: nothing of an earlier endOfCycle is left in    *)
(* it.  Likewise the RMS summary for the RMS grid.  (As first stated, for  *)
(* each cell whose value is not zero: C21_SummaryOfNonZeroCells.)          *)
(***************************************************************************)
SummaryGrid(fam) ==
    IF fam = "kHGmeanSummary" THEN "kHGmean"
    ELSE IF fam = "kHGrmsSummary" THEN "kHGrms"
    ELSE IF fam = "kLGmeanSummary" THEN "kLGmean"
    ELSE "kLGrms"

SummaryAxis(fam) ==
    IF fam \in {"kHGmeanSummary", "kLGmeanSummary"} THEN MeanSummaryAxes ELSE RmsSummaryAxes

SummaryBin(fam, v) ==
    TAxisFindBin(SummaryAxis(fam).nx, SummaryAxis(fam).xmin, SummaryAxis(fam).xmax, v)

\* the summary fam of module mod holds one entry per cell of its grid that Counted
SummaryHolds(fam, mod, Counted(_)) ==
    LET grid == mHist2D[<<SummaryGrid(fam), mod>>]
        cells == {b \in DOMAIN grid : Counted(grid[b])}
        sum == mHist1D[<<fam, mod>>]
    IN  \A k \in DOMAIN sum \cup {SummaryBin(fam, grid[b]) : b \in cells} :
           GetBinContent(sum, k)
             = RInt(Cardinality({b \in cells : SummaryBin(fam, grid[b]) = k}))

AfterPedestalFinalize == mMode = 1 /\ lastOp \in {"endOfCycle", "endOfActivity"}

C21_SummaryOfPositiveCells ==
    AfterPedestalFinalize =>
      \A fam \in PedSummaryFamilies, mod \in Modules : SummaryHolds(fam, mod, RPos)

NonZero(v) == v # Zero

C21_SummaryOfNonZeroCells ==
    AfterPedestalFinalize =>
      \A fam \in PedSummaryFamilies, mod \in Modules : SummaryHolds(fam, mod, NonZero)

\* endOfCycle has just divided grids with a cell of two records; a summary
\* holds an entry, and an RMS cell (low gain) with a value below zero has none
C21_Witness ==
    /\ mMode = 1 /\ lastOp = "endOfCycle" /\ ~lastFin /\ mFinalized
    /\ PedestalCellWith(2)
    /\ \E mod \in Modules : mHist1D[<<"kHGmeanSummary", mod>>] # EmptyHist
    /\ \E mod \in Modules : \E b \in DOMAIN mHist2D[<<"kLGrms", mod>>] :
         /\ RLess(mHist2D[<<"kLGrms", mod>>][b], Zero)
         /\ mHist1D[<<"kLGrmsSummary", mod>>] = EmptyHist

(***************************************************************************)
(* C22.  Occupancy range.  After every endOfCycle of a Pedestal run, the   *)
(* minimum and the maximum set on the occupancy grid of a module and gain  *)
(* satisfy minimum <= maximum: also for a module that got no record.       *)
(***************************************************************************)
C22_OccupancyRangeIsOrdered ==
    AfterPedestalFinalize =>
      \A id \in PedOccupFamilies \X Modules : ~RLess(mRange[id][2], mRange[id][1])

(***************************************************************************)
(* C23.  Order independence.  In a Pedestal run, from every state, a batch *)
(* of two records of one cell and two errors of one (FEC, DDL) leaves the  *)
(* same occupancy grids and the same error tally (count, bitmask), and the *)
(* same mean and RMS sums to the rounding of the float arithmetic, when it *)
(* is processed in one call, in one call in the other order, and in two    *)
(* calls with an endOfCycle and a startOfCycle in between; the flag is     *)
(* false after each.  (As first stated, the same sums:                     *)
(* C23_OrderIndependence; the divide and multiply of the cycle boundary    *)
(* turn the sum 57 of 7 records into 57 + 2^-18, and it stays in the sum.) *)
(***************************************************************************)
OrderTestCells == <<Cell(1793, RInt(12), T1, TRUE), Cell(1793, Rat(1, 2), T3, TRUE)>>

OrderTestErrors == <<Err(3, 5, 2), Err(3, 5, 4)>>

Reversed(s) == [i \in 1 .. Len(s) |-> s[Len(s) + 1 - i]]

OrderTestBatch(cells, errs) ==
    [hwerrors |-> errs, ccdb |-> SomeMap, chi2list |-> <<>>,
     cells |-> cells, cellsTR |-> <<[first |-> 0, n |-> Len(cells)]>>]

\* the occupancy grids, the error tally and the flag
RawTally(S) ==
    <<[id \in PedOccupFamilies \X Modules |-> S.h2[id]],
      S.h2[<<"kErrorNumber", 0>>], S.h2[<<"kErrorType", 0>>], S.fin>>

SameSums(Same(_, _), S, T) ==
    \A id \in PedValueFamilies \X Modules : SameHist(Same, S.h2[id], T.h2[id])

OrderIndependence(Same(_, _)) ==
    mMode = 1 =>
      LET M(S, cs, es) == monitorData(mMode, mCheckChi2, S, OrderTestBatch(cs, es))
          Boundary(S) == startOfCycle(mMode, mCheckChi2, endOfCycle(mMode, mCheckChi2, S))
      IN  \E InOne \in {M(Task, OrderTestCells, OrderTestErrors)} :
          \E Swapped \in {M(Task, Reversed(OrderTestCells), Reversed(OrderTestErrors))} :
          \E First \in {M(Task, SubSeq(OrderTestCells, 1, 1), SubSeq(OrderTestErrors, 1, 1))} :
          \E Split \in {M(Boundary(First), SubSeq(OrderTestCells, 2, 2),
                          SubSeq(OrderTestErrors, 2, 2))} :
             /\ RawTally(InOne) = RawTally(Swapped) /\ SameSums(Same, InOne, Swapped)
             /\ RawTally(InOne) = RawTally(Split) /\ SameSums(Same, InOne, Split)
             /\ ~InOne.fin

C23_OrderIndependenceWithinRounding == OrderIndependence(Near)

C23_OrderIndependence == OrderIndependence(Equal)

\* a cycle was closed and a new one opened between the calls of a run; both
\* records of the test cell and an error have been processed, and the mean
\* grid holds the sum of the energies to rounding only
C23_Witness ==
    /\ mMode = 1 /\ lastOp = "monitorData" /\ ~mFinalized
    /\ PedestalCellWith(2)
    /\ \A i \in 1 .. 2 : OrderTestCells[i] \in BagToSet(delivered)
    /\ \E i \in 1 .. 2 : OrderTestErrors[i] \in BagToSet(errors)
    /\ \E mod \in Modules : mHist1D[<<"kHGmeanSummary", mod>>] # EmptyHist
    /\ PedestalRaw(Near) /\ ~PedestalRaw(Equal)

(***************************************************************************)
(* C24.  In Physics and LED mode the finalized flag is false in every      *)
(* reachable state, with chi2 checking on or off, and startOfCycle,        *)
(* endOfCycle and endOfActivity leave the Physics accumulators (occupancy, *)
(* mean energy, time vs energy, spectrum) as they were.                    *)
(***************************************************************************)
C24_NeverFinalizedOutsidePedestal ==
    /\ [](mMode \in {0, 2} => ~mFinalized)
    /\ [][(/\ mMode \in {0, 2}
           /\ lastOp' \in {"startOfCycle", "endOfCycle", "endOfActivity"})
            => UNCHANGED PhysicsAccumulators]_vars

\* a Physics or LED run with chi2 checking has processed cells and fit-quality
\* pairs and closed a cycle
C24_Witness ==
    /\ mMode \in {0, 2} /\ mCheckChi2 /\ lastOp = "endOfCycle" /\ ~mFinalized
    /\ fits # EmptyBag
    /\ \E mod \in Modules : DOMAIN mHist2D[<<"kCellOccup", mod>>] # {}
    /\ \E mod \in Modules : DOMAIN mHist2D[<<"kChi2", mod>>] # {}

====
